---------------------------- MODULE Spec2Model ----------------------------
(***************************************************************************)
(* A model of the signal analysis engine of the app-store review scraper:  *)
(* Analyzer.calculate_risk_score with _calculate_pillar_densities (the     *)
(* RiskScorer) and Analyzer.calculate_slope (the TrendEstimator), from     *)
(* src/src/analyzer.py, with the taxonomy accepted by                      *)
(* validate_pain_keywords_config of src/src/config_validator.py; and of    *)
(* ForensicAnalyzer of src/src/intelligence.py: detect_event_timeline with *)
(* _name_spike (the AnomalyDetector), map_competitor_migration (the        *)
(* MigrationDetector), extract_semantic_clusters with _fallback_ngrams     *)
(* (the ClusterMiner) and run_forensic with _reviews_to_dataframe; and of  *)
(* Reporter.aggregate_leaderboard of src/src/reporter.py (the              *)
(* LeaderboardAggregator); and of the runs around them: main of            *)
(* src/main.py, Reporter.generate_matrix, Fetcher.filter_reviews of        *)
(* src/src/fetcher.py, Analyzer.analyze, the anomaly rule of               *)
(* detect_event_timeline on its own, AIClient.generate_structured of       *)
(* src/src/ai_client.py and VentureArchitect.generate_blueprint of         *)
(* src/src/venture_architect.py with the schemas of src/src/schemas.py.    *)
(*                                                                         *)
(* Numbers: Python floats are modelled as exact rationals <<num, den>>     *)
(* with den > 0; a value rounded to two decimals is an integer number of   *)
(* hundredths.                                                             *)
(***************************************************************************)
EXTENDS Integers, Sequences, FiniteSets, TLC

VARIABLES
    pain_keywords,      \* Analyzer.pain_keywords: [loaded, weight, keywords]
    category_counts,    \* category -> number of reviews matching it
    total_reviews,      \* N, the number of analysed reviews
    pc,                 \* position of the RiskScorer: "start", "done", "empty"
    slope,              \* slope argument of the last calculate_risk_score call
    pillar_densities,   \* pillar -> rational density
    base_score,         \* rational
    volatility_boost,   \* rational
    final_risk,         \* rational, before rounding
    risk_score,         \* hundredths, round(final_risk, 2)
    primary_pillar,     \* "Functional" | "Economic" | "Experience" | "None"
    df,                 \* calculate_slope's DataFrame: a sequence of rows [date, text]
    columns,            \* the DataFrame's column names
    spc,                \* position of the TrendEstimator: "start", "done"
    weekly_counts,      \* resample('W').size(): the regression's y values
    slope_out,          \* rational returned by calculate_slope
    reviews_df,         \* detect_event_timeline's DataFrame: rows [date, text, version]
    min_reviews_per_week,
    tpc,                \* position of the AnomalyDetector: "start", "done", "named"
    timeline,           \* the list detect_event_timeline returns
    week_start,         \* the week label handed to _name_spike
    version_label,      \* what _name_spike returned; "None" for None
    text_series,        \* map_competitor_migration's texts
    competitors_list,   \* and its competitor names
    mpc,                \* position of the MigrationDetector: "start", "done"
    migration,          \* the list map_competitor_migration returns
    cluster_texts,      \* extract_semantic_clusters' texts, each a sequence of words
    HAS_SKLEARN,        \* whether the import of CountVectorizer succeeded
    top_n,
    cpc,                \* position of the ClusterMiner: "start", "done"
    clusters,           \* the list of <<phrase, count>> it returns
    raw_reviews,        \* the reviews handed to run_forensic and to analyze
    app_name,
    fpc,                \* position of run_forensic: "start", "done"
    forensic_df,        \* the DataFrame of _reviews_to_dataframe
    intelligence,       \* the dictionary run_forensic returns
    apc,                \* position of analyze: "start", "done"
    analyze_df,         \* the DataFrame of analyze after its date step
    analyses,           \* the *_analysis.json files, in the order of the glob
    lpc,                \* position of the LeaderboardAggregator: "start", "done"
    leaderboard,        \* the rows aggregate_leaderboard returns
    matrix_analyses,    \* the analyses handed to generate_matrix
    xpc,                \* position of generate_matrix: "start", "done"
    matrix,             \* the dictionary generate_matrix returns
    main_pc,            \* position of main: "config", "init", "loop", "summary" and
                        \* where it ended: "config_error", "init_error",
                        \* "interrupted", "smoke_failed", "done"
    config_step,        \* the statement of the configuration block main is at
    config_error,       \* the statement of that block that raised, "none" if none
    exit_status,        \* -1 while main runs, then the status of the process
    smoke_test,         \* args.smoke_test
    targets_apps,       \* targets_config["apps"]: a sequence of [name, url]
    apps_to_process,
    idx,                \* the index of the loop over apps_to_process
    app_pc,             \* position in the loop body: "idle", "url", "fetch",
                        \* "filter", "save", "analyze"
    has_reviews,        \* whether filtered_reviews is non-empty
    successful_apps,
    failed_apps,
    attempted,          \* the indices the loop body was entered for, in order
    fetched,            \* the indices fetch_reviews was called for, in order
    raised,             \* the exceptions raised in the loop body: [idx, error]
    leaderboard_file,   \* "none", "written" or "failed"
    analysis_reviews,   \* the review list handed to Analyzer.analyze
    analysis_app,       \* app_name
    days_back,          \* days_back
    taxonomy_order,     \* the order of the categories in pain_keywords.json
    clock,              \* datetime.now of the calls of analyze, in their order
    runs,               \* what the calls of analyze made so far computed and returned
    fetched_reviews,    \* the reviews handed to Fetcher.filter_reviews
    filters,            \* Fetcher.filters: the section "filters" of settings.json
    filtered_reviews,   \* the list filter_reviews returns
    dropped_count,
    qpc,                \* position of filter_reviews: "start", "done"
    weekly_frame,       \* the retained weeks of detect_event_timeline: [total, pain_count]
    is_anomaly,         \* weekly["is_anomaly"]
    rpc,                \* position of the anomaly rule: "start", "done"
    response_model,     \* whether generate_structured is given a response_model
    ai_pc,              \* position of generate_structured: "call", "parse", "returned", "raised"
    raw_history,        \* the outcomes of the calls of _generate_raw, in their order
    raw_text,           \* the response _call returned
    ai_returned,        \* the dictionary generate_structured returns
    ai_exception,       \* the type of the exception generate_structured raises
    va_app,             \* app_name of generate_blueprint
    has_reddit,         \* whether reddit_data is non-empty
    va_pc,              \* position of generate_blueprint: "stage1", "stage2",
                        \* "stage3", "save", "render", "done"
    stage_log,          \* the stages run so far: [stage, error], error "None" for a success
    icp,                \* the output of stage 1: [origin, fields]
    system_map,         \* the output of stage 2
    eps,                \* the output of stage 3
    stage_inputs,       \* what the stages 2 and 3 were called with
    written,            \* the files written: path -> content
    va_returned         \* the tuple generate_blueprint returns

riskVars == <<category_counts, total_reviews, pc, slope, pillar_densities,
              base_score, volatility_boost, final_risk, risk_score,
              primary_pillar>>
slopeVars == <<df, columns, spc, weekly_counts, slope_out>>
timelineVars == <<reviews_df, min_reviews_per_week, tpc, timeline, week_start,
                  version_label>>
migrationVars == <<text_series, competitors_list, mpc, migration>>
clusterVars == <<cluster_texts, HAS_SKLEARN, top_n, cpc, clusters>>
forensicVars == <<timelineVars, migrationVars, clusterVars>>
pipelineVars == <<raw_reviews, app_name, fpc, forensic_df, intelligence, apc, analyze_df>>
reportVars == <<analyses, lpc, leaderboard>>
matrixVars == <<matrix_analyses, xpc, matrix>>
earlyVars == <<riskVars, slopeVars, forensicVars, pipelineVars, reportVars>>
mainVars == <<main_pc, config_step, config_error, exit_status, smoke_test, targets_apps,
              apps_to_process, idx, app_pc, has_reviews, successful_apps, failed_apps,
              attempted, fetched, raised, leaderboard_file>>
analysisVars == <<analysis_reviews, analysis_app, days_back, taxonomy_order, clock, runs>>
filterVars == <<fetched_reviews, filters, filtered_reviews, dropped_count, qpc>>
ruleVars == <<weekly_frame, is_anomaly, rpc>>
clientVars == <<response_model, ai_pc, raw_history, raw_text, ai_returned, ai_exception>>
ventureVars == <<va_app, has_reddit, va_pc, stage_log, icp, system_map, eps, stage_inputs,
                 written, va_returned>>
lateVars == <<matrixVars, mainVars, analysisVars, filterVars, ruleVars, clientVars,
              ventureVars>>
exceptMatrix == <<pain_keywords, earlyVars, mainVars, analysisVars, filterVars, ruleVars,
                  clientVars, ventureVars>>
exceptMain == <<pain_keywords, earlyVars, matrixVars, analysisVars, filterVars, ruleVars,
                clientVars, ventureVars>>
exceptAnalysis == <<pain_keywords, earlyVars, matrixVars, mainVars, filterVars, ruleVars,
                    clientVars, ventureVars>>
exceptFilter == <<pain_keywords, earlyVars, matrixVars, mainVars, analysisVars, ruleVars,
                  clientVars, ventureVars>>
exceptRule == <<pain_keywords, earlyVars, matrixVars, mainVars, analysisVars, filterVars,
                clientVars, ventureVars>>
exceptClient == <<pain_keywords, earlyVars, matrixVars, mainVars, analysisVars, filterVars,
                  ruleVars, ventureVars>>
exceptVenture == <<pain_keywords, earlyVars, matrixVars, mainVars, analysisVars, filterVars,
                   ruleVars, clientVars>>
vars == <<pain_keywords, earlyVars, lateVars>>

-----------------------------------------------------------------------------
(* Bounds of the model *)

\* Largest per-category match count.
MaxCount == 2

\* Largest number of rows of the DataFrame given to calculate_slope.
MaxReviews == 3

\* Largest number of rows of the DataFrame given to detect_event_timeline.
MaxTimelineRows == 5

\* Largest number of texts given to map_competitor_migration.
MaxTexts == 3

\* Largest number of texts given to extract_semantic_clusters.
MaxClusterTexts == 2
MaxRawReviews == 2
MaxApps == 3
MaxMatrixApps == 2
MaxTargets == 3
MaxAnalysedReviews == 2
MaxFetched == 2
MaxRetainedWeeks == 4
MaxObjects == 1
MaxBlueprintApps == 2

\* Category names a taxonomy is drawn from, at most three of them at a time:
\* two Functional, one Economic, one Experience, and one that
\* validate_pain_keywords_config accepts although _get_mece_pillar_mapping
\* does not list it.
CatUniverse == {"critical", "performance", "subscription", "usability", "ai_quality"}

CategorySets == {T \in SUBSET CatUniverse : Cardinality(T) <= 3}

\* Weights: any number passes validate_pain_keywords_config.
WeightChoices == {-1, 1, 10}

\* Total review counts N.
TotalChoices == {0, 1, 3, 10}

\* Slopes handed to calculate_risk_score.
SlopeChoices == {<<-1, 2>>, <<0, 1>>, <<1, 5>>, <<3, 2>>}

\* Dates of the rows, as day numbers with day 0 a Monday: a Monday and the
\* Sunday of the same week, the Monday after, and a day two weeks later.
DayChoices == {0, 6, 7, 20}

-----------------------------------------------------------------------------
(* Rational arithmetic *)

Max(a, b) == IF a >= b THEN a ELSE b

RatLeq(a, b) == a[1] * b[2] <= b[1] * a[2]
RatLt(a, b) == a[1] * b[2] < b[1] * a[2]
RatEq(a, b) == a[1] * b[2] = b[1] * a[2]
RatAdd(a, b) == <<a[1] * b[2] + b[1] * a[2], a[2] * b[2]>>
RatMul(a, b) == <<a[1] * b[1], a[2] * b[2]>>
RatMin(a, b) == IF RatLeq(a, b) THEN a ELSE b
RatMax(a, b) == IF RatLeq(b, a) THEN a ELSE b

\* n / d rounded to the nearest integer, ties to the even one (d > 0).
RoundHalfEven(n, d) ==
    LET q == (2 * n + d) \div (2 * d)
        tie == (2 * n + d) % (2 * d) = 0
    IN  IF tie /\ q % 2 = 1 THEN q - 1 ELSE q

\* round(x, 2), as a number of hundredths.
Round2(x) == RoundHalfEven(100 * x[1], x[2])

-----------------------------------------------------------------------------
(* The taxonomy *)

\* validate_pain_keywords_config: "categories" is a dictionary and each
\* category has a list "keywords" and a number "weight"; neither the sign of
\* the weight nor the category name is checked.
validate_pain_keywords_config(config) ==
    /\ config.loaded
    /\ DOMAIN config.weight = DOMAIN config.keywords
    /\ \A c \in DOMAIN config.weight : config.weight[c] \in Int

Pillars == <<"Functional", "Economic", "Experience">>

PillarSet == {Pillars[i] : i \in 1..Len(Pillars)}

\* Analyzer._get_mece_pillar_mapping
_get_mece_pillar_mapping ==
    [c \in {"critical", "performance", "privacy", "scam_financial",
            "subscription", "ads", "usability", "competitor_mention",
            "generic_pain"} |->
        CASE c \in {"critical", "performance", "privacy"} -> "Functional"
          [] c \in {"scam_financial", "subscription", "ads"} -> "Economic"
          [] OTHER -> "Experience"]

-----------------------------------------------------------------------------
(* RiskScorer *)

ZeroWeights == [p \in PillarSet |-> 0]

\* The iteration with "=" in place of "+=".
AddCategoryOverwrite(pillar_weights, c, counts, pk) ==
    IF c \in DOMAIN _get_mece_pillar_mapping /\ c \in DOMAIN pk.weight
    THEN [pillar_weights EXCEPT ![_get_mece_pillar_mapping[c]] = counts[c] * pk.weight[c]]
    ELSE pillar_weights

\* One iteration of the loop of _calculate_pillar_densities (lines 295-301).
AddCategory(pillar_weights, c, counts, pk) ==
    IF c \in DOMAIN _get_mece_pillar_mapping /\ c \in DOMAIN pk.weight
    THEN [pillar_weights EXCEPT ![_get_mece_pillar_mapping[c]] = @ + counts[c] * pk.weight[c]]
    ELSE pillar_weights

\* The loop over category_counts.items(), in the iteration order `order`.
RECURSIVE SumPillarWeights(_, _, _)
SumPillarWeights(order, counts, pk) ==
    IF order = <<>>
    THEN ZeroWeights
    ELSE AddCategory(SumPillarWeights(SubSeq(order, 1, Len(order) - 1), counts, pk),
                     order[Len(order)], counts, pk)

\* Analyzer._calculate_pillar_densities
_calculate_pillar_densities(order, counts, total, pk) ==
    IF total = 0 \/ ~pk.loaded
    THEN [p \in PillarSet |-> <<0, 1>>]
    ELSE LET w == SumPillarWeights(order, counts, pk)
         IN  [p \in PillarSet |-> <<w[p], total>>]

\* sum(pillar_densities.values())
TotalDensity(d) ==
    RatAdd(RatAdd(d["Functional"], d["Economic"]), d["Experience"])

\* max(pillar_densities.items(), key=lambda x: x[1])[0]: the first maximal
\* item in the dictionary's order.
RECURSIVE ArgMaxFrom(_, _, _)
ArgMaxFrom(d, i, best) ==
    IF i > Len(Pillars)
    THEN best
    ELSE ArgMaxFrom(d, i + 1, IF RatLt(d[best], d[Pillars[i]]) THEN Pillars[i] ELSE best)

\* The last maximal item instead of the first.
RECURSIVE ArgMaxLastFrom(_, _, _)
ArgMaxLastFrom(d, i, best) ==
    IF i > Len(Pillars)
    THEN best
    ELSE ArgMaxLastFrom(d, i + 1, IF RatLeq(d[best], d[Pillars[i]]) THEN Pillars[i] ELSE best)

PrimaryPillarLastMax(d) == ArgMaxLastFrom(d, 2, Pillars[1])

PrimaryPillar(d) == ArgMaxFrom(d, 2, Pillars[1])

\* 1.0 + slope, without the max.
VolatilityBoostUnclamped(s) == <<s[2] + s[1], s[2]>>

\* 1.0 + max(0.0, slope)
VolatilityBoost(s) == <<s[2] + Max(0, s[1]), s[2]>>

\* min(100.0, base_score * volatility_boost)
FinalRisk(base, boost) == RatMin(<<100, 1>>, RatMul(base, boost))

\* The iteration orders of a dictionary with the keys S.
Orders(S) ==
    {o \in [1..Cardinality(S) -> S] : \A i, j \in 1..Cardinality(S) : o[i] = o[j] => i = j}

\* What Analyzer.calculate_risk_score(s, _, counts, total) computes under the
\* taxonomy pk, the dictionary counts being iterated in the order `order`.
RiskScore(s, order, counts, total, pk) ==
    LET d == _calculate_pillar_densities(order, counts, total, pk)
        base == RatMul(<<10, 1>>, TotalDensity(d))
        boost == VolatilityBoost(s)
        final == FinalRisk(base, boost)
    IN  [pillar_densities |-> d,
         base_score |-> base,
         volatility_boost |-> boost,
         final_risk |-> final,
         risk_score |-> Round2(final),
         primary_pillar |-> PrimaryPillar(d)]

\* Analyzer.calculate_risk_score(slope, _, category_counts, total_reviews),
\* the dictionary category_counts being iterated in the order `order`.
calculate_risk_score(s, order) ==
    /\ pc = "start"
    /\ LET r == RiskScore(s, order, category_counts, total_reviews, pain_keywords)
       IN  /\ pillar_densities' = r.pillar_densities
           /\ base_score' = r.base_score
           /\ volatility_boost' = r.volatility_boost
           /\ final_risk' = r.final_risk
           /\ risk_score' = r.risk_score
           /\ primary_pillar' = r.primary_pillar
    /\ slope' = s
    /\ pc' = "done"
    /\ UNCHANGED <<pain_keywords, category_counts, total_reviews, slopeVars, forensicVars,
                   pipelineVars, reportVars, lateVars>>

\* Analyzer.analyze on an empty review list: _empty_analysis_result.
_empty_analysis_result ==
    /\ pc = "start"
    /\ total_reviews = 0
    /\ \A c \in DOMAIN category_counts : category_counts[c] = 0
    /\ pillar_densities' = [p \in PillarSet |-> <<0, 1>>]
    /\ risk_score' = 0
    /\ primary_pillar' = "None"
    /\ pc' = "empty"
    /\ UNCHANGED <<pain_keywords, category_counts, total_reviews, slope, base_score,
                   volatility_boost, final_risk, slopeVars, forensicVars,
                   pipelineVars, reportVars, lateVars>>

-----------------------------------------------------------------------------
(* RiskScorer: properties *)

RECURSIVE SumOver(_, _)
SumOver(S, f) ==
    IF S = {} THEN 0
    ELSE LET x == CHOOSE y \in S : TRUE IN f[x] + SumOver(S \ {x}, f)

\* count(c) * weight(c), for the categories of the taxonomy
Term == [c \in DOMAIN category_counts |-> category_counts[c] * pain_keywords.weight[c]]

\* The categories mapped to pillar p.
MappedTo(p) ==
    {c \in DOMAIN category_counts :
        c \in DOMAIN _get_mece_pillar_mapping /\ _get_mece_pillar_mapping[c] = p}

\* density(P) = (sum over the categories c mapped to P of count(c) * weight(c)) / N
StatedDensity(p) == <<SumOver(MappedTo(p), Term), total_reviews>>

StatedBase ==
    RatMul(<<10, 1>>, RatAdd(RatAdd(StatedDensity("Functional"), StatedDensity("Economic")),
                             StatedDensity("Experience")))

StatedBoost == RatAdd(<<1, 1>>, RatMax(<<0, 1>>, slope))

StatedRisk == RatMin(<<100, 1>>, RatMul(StatedBase, StatedBoost))

\* The taxonomy is one the validator accepts and its weights are >= 0.
ValidTaxonomy ==
    /\ validate_pain_keywords_config(pain_keywords)
    /\ \A c \in DOMAIN pain_keywords.weight : pain_keywords.weight[c] >= 0

IsExampleInput ==
    /\ DOMAIN category_counts = {"critical"}
    /\ category_counts["critical"] = 2
    /\ pain_keywords.weight["critical"] = 10
    /\ total_reviews = 10
    /\ slope = <<1, 5>>

ExampleOutput ==
    /\ RatEq(pillar_densities["Functional"], <<2, 1>>)
    /\ RatEq(base_score, <<20, 1>>)
    /\ RatEq(volatility_boost, <<6, 5>>)
    /\ risk_score = 2400

StatedFormulaWithoutScore ==
    /\ \A p \in PillarSet : RatEq(pillar_densities[p], StatedDensity(p))
    /\ RatEq(base_score, StatedBase)
    /\ RatEq(volatility_boost, StatedBoost)
    /\ IsExampleInput => ExampleOutput

\* C1: for every record set, slope and taxonomy that
\* validate_pain_keywords_config accepts, the risk score returned by
\* calculate_risk_score is between 0 and 100.
C1_RiskScoreInRange ==
    (pc = "done" /\ validate_pain_keywords_config(pain_keywords))
        => (0 <= risk_score /\ risk_score <= 100 * 100)

\* C2 as stated: density(P) = (sum of count(c) * weight(c) over the categories
\* mapped to P) / N, base_score = 10 * (sum of the densities), boost =
\* 1 + max(0, slope), and the returned risk_score is exactly
\* min(100, base_score * boost); the example {critical: 2}, weight 10, N = 10,
\* slope 0.2 gives 2.0, 20.0, 1.2 and 24.0. (Stated for the taxonomies
\* with weights >= 0 only.)
C2_RiskScoreIsUnroundedFormula ==
    (pc = "done" /\ total_reviews > 0 /\ ValidTaxonomy)
        => /\ StatedFormulaWithoutScore
           /\ RatEq(<<risk_score, 100>>, StatedRisk)

\* C2 as amended: the same densities, base_score and boost, and the returned
\* risk_score is min(100, base_score * boost) rounded to two decimals.
C2_RiskScoreIsRoundedFormula ==
    (pc = "done" /\ total_reviews > 0)
        => /\ StatedFormulaWithoutScore
           /\ risk_score = Round2(StatedRisk)

C2_Witness ==
    pc = "done" /\ IsExampleInput /\ ExampleOutput

\* The risk score calculate_risk_score returns for the same counts and N with
\* the slope s2.
RiskScoreAt(s2) == Round2(FinalRisk(base_score, VolatilityBoost(s2)))

\* C3: the trend only amplifies: for fixed counts and N every slope <= 0
\* gives the risk score of slope 0, and the risk score is non-decreasing in
\* the slope.
C3_TrendOnlyAmplifies ==
    pc = "done" =>
        \A s2 \in SlopeChoices :
            /\ (RatLeq(slope, <<0, 1>>) /\ RatLeq(s2, <<0, 1>>)) => RiskScoreAt(s2) = risk_score
            /\ RatLeq(slope, s2) => risk_score <= RiskScoreAt(s2)

\* C4: the sum of the three pillar densities computed by
\* _calculate_pillar_densities is the same for every iteration order of the
\* categories.
C4_DensitySumOrderIndependent ==
    pc = "done" =>
        \A o \in Orders(DOMAIN category_counts) :
            RatEq(TotalDensity(_calculate_pillar_densities(o, category_counts, total_reviews,
                                                        pain_keywords)),
                  TotalDensity(pillar_densities))

C4_Witness ==
    /\ pc = "done"
    /\ total_reviews > 0
    /\ {"critical", "performance"} \subseteq DOMAIN category_counts
    /\ Term["critical"] > 0
    /\ Term["performance"] > Term["critical"]
    /\ RatEq(pillar_densities["Functional"],
             <<Term["critical"] + Term["performance"], total_reviews>>)

\* C5: every category of a validated taxonomy maps to exactly one pillar, and
\* for every category with count > 0 the term count * weight is in exactly
\* one of the three pillar weight sums: none is left out. (Stated for the
\* taxonomies with weights >= 0 only.)
C5_EveryCategoryInOnePillar ==
    (pc = "done" /\ total_reviews > 0 /\ ValidTaxonomy)
        => /\ \A c \in DOMAIN category_counts :
                 category_counts[c] > 0 => Cardinality({p \in PillarSet : c \in MappedTo(p)}) = 1
           /\ RatEq(TotalDensity(pillar_densities),
                    <<SumOver(DOMAIN category_counts, Term), total_reviews>>)

PillarIndex(p) == CHOOSE i \in 1..Len(Pillars) : Pillars[i] = p

\* C6: primary_pillar is a pillar of maximal density; among tied pillars it
\* is the one declared first in Functional, Economic, Experience; and it is
\* the same whatever the iteration order of the call was.
C6_PrimaryPillarIsFirstArgmax ==
    pc = "done" =>
        /\ primary_pillar \in PillarSet
        /\ \A p \in PillarSet : RatLeq(pillar_densities[p], pillar_densities[primary_pillar])
        /\ \A i \in 1..Len(Pillars) :
              i < PillarIndex(primary_pillar)
                 => RatLt(pillar_densities[Pillars[i]], pillar_densities[primary_pillar])
        /\ \A o \in Orders(DOMAIN category_counts) :
              PrimaryPillar(_calculate_pillar_densities(o, category_counts, total_reviews,
                                                     pain_keywords)) = primary_pillar

C6_Witness ==
    /\ pc = "done"
    /\ RatLt(<<0, 1>>, pillar_densities["Economic"])
    /\ RatEq(pillar_densities["Economic"], pillar_densities["Experience"])
    /\ RatLt(pillar_densities["Functional"], pillar_densities["Economic"])
    /\ primary_pillar = "Economic"

\* C7: calculate_risk_score called with total_reviews = 0 yields the empty
\* result: risk score 0, all three densities 0 and primary_pillar "None".
\* (Stated for the taxonomies with weights >= 0 only.)
C7_ZeroTotalGivesEmptyResult ==
    (pc = "done" /\ total_reviews = 0 /\ ValidTaxonomy)
        => /\ risk_score = 0
           /\ \A p \in PillarSet : RatEq(pillar_densities[p], <<0, 1>>)
           /\ primary_pillar = "None"

\* C8: whenever more than 10% of the analysed reviews match an Economic
\* category the risk score is at least 60, whatever the slope. (Stated for
\* the taxonomies with weights >= 0 only.)
C8_CriticalFloor ==
    (/\ pc = "done"
     /\ total_reviews > 0
     /\ ValidTaxonomy
     /\ \E c \in MappedTo("Economic") : 10 * category_counts[c] > total_reviews)
        => risk_score >= 60 * 100

-----------------------------------------------------------------------------
(* Text *)

\* str.lower() on the characters the texts use.
UpperCase == <<"A", "B", "C", "D", "E", "F", "G", "H", "I", "J", "K", "L", "M",
              "N", "O", "P", "Q", "R", "S", "T", "U", "V", "W", "X", "Y", "Z">>
LowerCase == <<"a", "b", "c", "d", "e", "f", "g", "h", "i", "j", "k", "l", "m",
              "n", "o", "p", "q", "r", "s", "t", "u", "v", "w", "x", "y", "z">>

LowerChar(ch) ==
    IF \E i \in 1..Len(UpperCase) : UpperCase[i] = ch
    THEN LowerCase[CHOOSE i \in 1..Len(UpperCase) : UpperCase[i] = ch]
    ELSE ch

Lower(str) == [i \in 1..Len(str) |-> LowerChar(str[i])]

\* re.search of an escaped keyword: kw occurs in str as a substring.
Contains(str, kw) ==
    \E i \in 1..(Len(str) - Len(kw) + 1) : SubSeq(str, i, i + Len(kw) - 1) = kw

TextOk == <<"o", "k">>
TextCrashed == <<"C", "r", "a", "s", "h", "e", "d">>
TitleBug == <<"B", "u", "g">>
KeywordCrash == <<"c", "r", "a", "s", "h">>
KeywordBug == <<"b", "u", "g">>

TextChoices == {TextOk, TextCrashed}
TitleChoices == {<<>>, TitleBug}

-----------------------------------------------------------------------------
(* TrendEstimator *)

\* pd.NaT: a date that errors='coerce' could not parse.
NaT == -1

\* Analyzer._identify_pain_keyword_reviews, for one row of the DataFrame
\* whose columns are cols.
_identify_pain_keyword_reviews(row, cols, pk) ==
    IF "text" \notin cols \/ ~pk.loaded
    THEN FALSE
    ELSE LET combined_text == IF "title" \in cols
                              THEN Lower(row.title \o <<" ">> \o row.text)
                              ELSE Lower(row.text)
             all_keywords == UNION {{Lower(kw) : kw \in pk.keywords[c]} : c \in DOMAIN pk.keywords}
         IN  \E kw \in all_keywords : Contains(combined_text, kw)

\* Weeks that end on Saturday (W-SAT) instead.
DaysSinceSaturday(d) == ((d % 7) + 2) % 7

\* Days since the last Sunday on or before day d: 'W' is W-SUN, weeks that
\* end on Sunday (day 0 is a Monday, so Sundays are the days 6 mod 7).
DaysSinceAnchor(d) == ((d % 7) + 1) % 7

AnchorOnOrBefore(d) == d - DaysSinceAnchor(d)

RECURSIVE SeqMin(_)
SeqMin(q) == IF Len(q) = 1 THEN q[1]
             ELSE LET m == SeqMin(Tail(q)) IN IF q[1] < m THEN q[1] ELSE m

RECURSIVE SeqMax(_)
SeqMax(q) == IF Len(q) = 1 THEN q[1]
             ELSE LET m == SeqMax(Tail(q)) IN IF q[1] > m THEN q[1] ELSE m

\* groupby of the week label: only the weeks that hold a row, no empty bin.
GroupByWeekSize(days) ==
    LET label == [i \in 1..Len(days) |-> AnchorOnOrBefore(days[i] - 1) + 7]
        labels == {label[i] : i \in 1..Len(days)}
        kth(k) == CHOOSE l \in labels : Cardinality({m \in labels : m < l}) = k - 1
    IN  [k \in 1..Cardinality(labels) |->
            Cardinality({i \in 1..Len(days) : label[i] = kth(k)})]

\* resample('W').size() of the non-empty sequence of days: the bin edges run
\* from the anchor before the first day (first - freq) to the anchor after the
\* last day (last + freq); the bins are closed and labelled on the right; the
\* last edge is dropped when the one before it already covers the last day;
\* every bin between the first and the last is kept, with size 0 when no row
\* falls in it.
ResampleWeeklySize(days) ==
    LET first == AnchorOnOrBefore(SeqMin(days) - 1)
        last == AnchorOnOrBefore(SeqMax(days)) + 7
        n == (last - first) \div 7
        binner == [k \in 1..(n + 1) |-> first + 7 * (k - 1)]
        kept == IF n >= 1 /\ binner[n] >= SeqMax(days) THEN SubSeq(binner, 1, n) ELSE binner
    IN  [k \in 1..(Len(kept) - 1) |->
            Cardinality({i \in 1..Len(days) : kept[k] < days[i] /\ days[i] <= kept[k + 1]})]

RECURSIVE SumSeq(_, _)
SumSeq(f, n) == IF n = 0 THEN 0 ELSE f[n] + SumSeq(f, n - 1)

\* np.polyfit(np.arange(len(counts)), counts, deg=1)[0]: the least-squares
\* slope, for at least two points.
Polyfit1(counts) ==
    LET n == Len(counts)
        x == [i \in 1..n |-> i - 1]
        sx == SumSeq(x, n)
        sy == SumSeq(counts, n)
        sxy == SumSeq([i \in 1..n |-> x[i] * counts[i]], n)
        sxx == SumSeq([i \in 1..n |-> x[i] * x[i]], n)
    IN  <<n * sxy - sx * sy, n * sxx - sx * sx>>

\* The value Analyzer.calculate_slope(frame) returns for a frame with the columns
\* cols under the taxonomy pk, with the weekly counts it fitted.
PainSlope(frame, cols, pk) ==
    LET pain_keyword_reviews ==
            SelectSeq(frame, LAMBDA row : _identify_pain_keyword_reviews(row, cols, pk))
        dated == SelectSeq(pain_keyword_reviews, LAMBDA row : row.date # NaT)
        counts == ResampleWeeklySize([i \in 1..Len(dated) |-> dated[i].date])
        flat == [slope |-> <<0, 1>>, weekly |-> <<>>]
    IN  IF frame = <<>> \/ "date" \notin cols
        THEN flat
        ELSE IF Len(pain_keyword_reviews) < 2
        THEN flat
        ELSE IF Len(dated) < 2
        THEN flat
        ELSE [slope |-> IF Len(counts) < 2 THEN <<0, 1>> ELSE Polyfit1(counts),
              weekly |-> counts]

\* Analyzer.calculate_slope(df)
calculate_slope ==
    /\ spc = "start"
    /\ slope_out' = PainSlope(df, columns, pain_keywords).slope
    /\ weekly_counts' = PainSlope(df, columns, pain_keywords).weekly
    /\ spc' = "done"
    /\ UNCHANGED <<pain_keywords, df, columns, riskVars, forensicVars, pipelineVars,
                   reportVars, lateVars>>

-----------------------------------------------------------------------------
(* TrendEstimator: properties *)

\* The rows that are pain-flagged and carry a valid date.
PainDated ==
    {i \in 1..Len(df) :
        /\ "date" \in columns
        /\ df[i].date # NaT
        /\ _identify_pain_keyword_reviews(df[i], columns, pain_keywords)}

\* The calendar week (Monday to Sunday) of a day; day 0 is a Monday.
CalendarWeek(d) == d \div 7

ObservedWeeks == {CalendarWeek(df[i].date) : i \in PainDated}

RowsInWeek(w) == Cardinality({i \in PainDated : CalendarWeek(df[i].date) = w})

FirstWeek == CHOOSE w \in ObservedWeeks : \A v \in ObservedWeeks : w <= v
LastWeek == CHOOSE w \in ObservedWeeks : \A v \in ObservedWeeks : v <= w

\* The k-th observed week in chronological order.
ObservedWeek(k) ==
    CHOOSE w \in ObservedWeeks : Cardinality({v \in ObservedWeeks : v < w}) = k - 1

\* The least-squares slope of the points (0, y[1]), (1, y[2]), ...
LeastSquaresSlope(y) ==
    LET n == Len(y)
        sx == (n * (n - 1)) \div 2
        sxx == ((n - 1) * n * (2 * n - 1)) \div 6
    IN  <<n * SumSeq([i \in 1..n |-> (i - 1) * y[i]], n) - sx * SumSeq(y, n),
          n * sxx - sx * sx>>

\* C9: calculate_slope returns exactly 0.0 when there are 0 or 1
\* pain-flagged records with a valid date, and when all pain-flagged dated
\* records fall in the same calendar week.
C9_FlatSlopeOnInsufficientData ==
    (spc = "done" /\ (Cardinality(PainDated) <= 1 \/ Cardinality(ObservedWeeks) <= 1))
        => slope_out = <<0, 1>>

C9_Witness ==
    /\ spc = "done"
    /\ Cardinality(PainDated) = 3
    /\ {df[i].date : i \in PainDated} = {0, 6}
    /\ weekly_counts = <<3>>
    /\ slope_out = <<0, 1>>

\* C10 as stated: the regression has exactly one point per distinct calendar
\* week that contains a pain-flagged dated record, in chronological order,
\* and no point for a week without one.
C10_OnePointPerObservedWeek ==
    (spc = "done" /\ Cardinality(PainDated) >= 2)
        => /\ Len(weekly_counts) = Cardinality(ObservedWeeks)
           /\ \A k \in 1..Len(weekly_counts) : weekly_counts[k] = RowsInWeek(ObservedWeek(k))

\* C10 as amended: the regression has exactly one point per calendar week
\* from the first to the last week that contains a pain-flagged dated record,
\* with x = 0, 1, 2, ... in chronological order; a week in between without
\* such a record contributes a point with count 0.
C10_OnePointPerWeekOfSpan ==
    (spc = "done" /\ Cardinality(PainDated) >= 2)
        => /\ Len(weekly_counts) = LastWeek - FirstWeek + 1
           /\ \A k \in 1..Len(weekly_counts) : weekly_counts[k] = RowsInWeek(FirstWeek + k - 1)
           /\ Len(weekly_counts) >= 2 => RatEq(slope_out, LeastSquaresSlope(weekly_counts))

C10_Witness ==
    /\ spc = "done"
    /\ {df[i].date : i \in PainDated} = {6, 20}
    /\ weekly_counts = <<2, 0, 1>>
    /\ RatEq(slope_out, <<-1, 2>>)

-----------------------------------------------------------------------------
(* AnomalyDetector *)

Min(a, b) == IF a <= b THEN a ELSE b

TextApiCrash == <<"A", "p", "i", " ", "c", "r", "a", "s", "h">>

\* ForensicAnalyzer.WHALE_DOMAIN_VOCAB
WHALE_DOMAIN_VOCAB ==
    {<<"l", "a", "t", "e", "n", "c", "y">>,
     <<"v", "e", "c", "t", "o", "r">>,
     <<"w", "o", "r", "k", "f", "l", "o", "w">>,
     <<"p", "i", "p", "e", "l", "i", "n", "e">>,
     <<"i", "n", "t", "e", "g", "r", "a", "t", "i", "o", "n">>,
     <<"a", "p", "i">>,
     <<"b", "a", "t", "c", "h">>,
     <<"e", "x", "p", "o", "r", "t">>,
     <<"s", "y", "n", "c">>,
     <<"s", "y", "n", "c", " ", "f", "a", "i", "l", "e", "d">>,
     <<"c", "r", "e", "d", "i", "t", "s">>,
     <<"q", "u", "o", "t", "a">>,
     <<"r", "e", "n", "d", "e", "r">>,
     <<"4", "k">>,
     <<"r", "e", "s", "o", "l", "u", "t", "i", "o", "n">>,
     <<"f", "r", "a", "m", "e", " ", "r", "a", "t", "e">>}

\* ForensicAnalyzer.WHALE_MULTIPLIER
WHALE_MULTIPLIER == 3

\* ForensicAnalyzer._has_pain_keyword
_has_pain_keyword(text, pk) ==
    IF ~pk.loaded
    THEN FALSE
    ELSE \E c \in DOMAIN pk.keywords : \E kw \in pk.keywords[c] :
            Contains(Lower(text), Lower(kw))

\* len(text.split()): the maximal runs of non-space characters.
WordCount(str) ==
    Cardinality({i \in 1..Len(str) : str[i] # " " /\ (i = 1 \/ str[i - 1] = " ")})

\* ForensicAnalyzer._is_whale_review
_is_whale_review(text) ==
    IF text = <<>>
    THEN FALSE
    ELSE \/ WordCount(Lower(text)) > 40
         \/ \E vocab \in WHALE_DOMAIN_VOCAB : Contains(Lower(text), vocab)

\* ForensicAnalyzer._get_pain_weight
_get_pain_weight(has_pain, is_whale) ==
    IF ~has_pain THEN 0 ELSE IF is_whale THEN WHALE_MULTIPLIER ELSE 1

\* The taxonomies and the texts of the AnomalyDetector's runs: no taxonomy
\* loaded and one with a keyword; a text without pain, a pain text and a pain
\* text with a term of the domain vocabulary.
TimelineTaxonomies ==
    {[loaded |-> FALSE, weight |-> <<>>, keywords |-> <<>>],
     [loaded |-> TRUE, weight |-> [c \in {"critical"} |-> 10],
      keywords |-> [c \in {"critical"} |-> {KeywordCrash}]]}

TimelineTexts == {TextOk, TextCrashed, TextApiCrash}

\* df["pain_weight"] of a row with the text `text`: the three apply() calls
\* of lines 180-185, tabulated for the texts and taxonomies of the runs.
PainWeightTable ==
    [pk \in TimelineTaxonomies |->
        [text \in TimelineTexts |->
            _get_pain_weight(_has_pain_keyword(text, pk), _is_whale_review(text))]]

PainWeight(text, pk) ==
    IF pk \in TimelineTaxonomies /\ text \in TimelineTexts
    THEN PainWeightTable[pk][text]
    ELSE _get_pain_weight(_has_pain_keyword(text, pk), _is_whale_review(text))

\* The label of the 'W-MON' bin that holds day d: the Monday on or after d
\* (bins are closed and labelled on the right; day 0 is a Monday).
WeekLabel(d) == d + ((7 - (d % 7)) % 7)

\* df.resample("W-MON").agg(total=("text", "count"), pain_count=("pain_weight",
\* "sum")) of the non-empty rows: one row per week from the week of the first
\* day to the week of the last, the empty weeks included with total 0.
ResampleWMon(rows, pk) ==
    LET first == WeekLabel(SeqMin([i \in 1..Len(rows) |-> rows[i].date]))
        last == WeekLabel(SeqMax([i \in 1..Len(rows) |-> rows[i].date]))
        bin(label) == {i \in 1..Len(rows) : label - 7 < rows[i].date /\ rows[i].date <= label}
        pain_weight == [i \in 1..Len(rows) |-> PainWeight(rows[i].text, pk)]
    IN  [k \in 1..(((last - first) \div 7) + 1) |->
            [label |-> first + 7 * (k - 1),
             total |-> Cardinality(bin(first + 7 * (k - 1))),
             pain_count |-> SumOver(bin(first + 7 * (k - 1)), pain_weight)]]

\* Every week that holds a row is kept.
FilterNonEmptyWeeks(weekly, minimum) == SelectSeq(weekly, LAMBDA w : w.total >= 1)

\* weekly[weekly["total"] >= min_reviews_per_week]
FilterWeeks(weekly, minimum) == SelectSeq(weekly, LAMBDA w : w.total >= minimum)

\* The rows of rolling(window=min(4, len(weekly)), min_periods=1) at row i.
RollingWindow(weekly, i) == Max(1, i - Min(4, Len(weekly)) + 1)..i

RECURSIVE ProductOver(_, _)
ProductOver(S, f) ==
    IF S = {} THEN 1
    ELSE LET x == CHOOSE y \in S : TRUE IN f[x] * ProductOver(S \ {x}, f)

\* weekly["density"] > weekly["rolling_mean"] + 2 * weekly["rolling_std"] at
\* row i, the std being the sample standard deviation (ddof = 1) and 0 for a
\* window of one row.  With the densities n[j] / L over the common
\* denominator L and dev[j] = k * n[j] - sum(n), the density exceeds the mean
\* by dev[i] / (k * L) and the variance is sum(dev[j]^2) / (k^2 * L^2 * (k - 1)).
IsAnomaly(weekly, i) ==
    LET W == RollingWindow(weekly, i)
        k == Cardinality(W)
        L == ProductOver(W, [j \in W |-> weekly[j].total])
        n == [j \in W |-> weekly[j].pain_count * (L \div weekly[j].total)]
        dev == [j \in W |-> k * n[j] - SumOver(W, n)]
    IN  IF k = 1
        THEN dev[i] > 0
        ELSE /\ dev[i] > 0
             /\ (k - 1) * dev[i] * dev[i] > 4 * SumOver(W, [j \in W |-> dev[j] * dev[j]])

\* ForensicAnalyzer._name_spike(week_start, df): the values it can return,
\* "None" for None.  value_counts() puts a most frequent version first; which
\* one of several equally frequent versions is not fixed here.
_name_spike(ws, rows) ==
    LET week_reviews == {i \in 1..Len(rows) : rows[i].date >= ws /\ rows[i].date < ws + 7}
        versions == {i \in week_reviews : rows[i].version # ""}
        vc == [v \in {rows[i].version : i \in versions} |->
                  Cardinality({i \in versions : rows[i].version = v})]
    IN  IF versions = {}
        THEN {"None"}
        ELSE {v \in DOMAIN vc : \A u \in DOMAIN vc : vc[u] <= vc[v]}

\* f"The Version {version_label} Spike"
VersionSpike(v) ==
    CASE v = "1.0" -> "The Version 1.0 Spike"
      [] v = "2.0" -> "The Version 2.0 Spike"
      [] OTHER -> "The Version Spike"

\* round(float(row["density"]), 4), as a number of ten-thousandths.
Round4(x) == RoundHalfEven(10000 * x[1], x[2])

VersionChoices == {"1.0", "2.0"}

\* ForensicAnalyzer.detect_event_timeline(rows, minimum), for a DataFrame
\* that has the columns date, text and version: the lists it can return.
EventTimelines(rows, minimum, pk) ==
    LET dfr == SelectSeq(rows, LAMBDA r : r.date # NaT)
        weekly == IF dfr = <<>>
                  THEN <<>>
                  ELSE FilterWeeks(ResampleWMon(dfr, pk), minimum)
    IN  IF rows = <<>> \/ dfr = <<>> \/ Len(weekly) < 2
        THEN {<<>>}
        ELSE {[i \in 1..Len(weekly) |->
                  [week |-> weekly[i].label,
                   density |-> Round4(<<weekly[i].pain_count, weekly[i].total>>),
                   total |-> weekly[i].total,
                   pain_count |-> weekly[i].pain_count,
                   event |-> IF ~IsAnomaly(weekly, i) THEN "None"
                             ELSE IF label[i] # "None" THEN VersionSpike(label[i])
                             ELSE "Critical Spike",
                   version |-> label[i]]] :
              label \in {l \in [1..Len(weekly) -> VersionChoices \cup {"None"}] :
                            \A i \in 1..Len(weekly) :
                                l[i] \in (IF IsAnomaly(weekly, i)
                                          THEN _name_spike(weekly[i].label, dfr)
                                          ELSE {"None"})}}

\* The call detect_event_timeline(reviews_df, min_reviews_per_week).
detect_event_timeline ==
    /\ tpc = "start"
    /\ timeline' \in EventTimelines(reviews_df, min_reviews_per_week, pain_keywords)
    /\ tpc' = "done"
    /\ UNCHANGED <<pain_keywords, reviews_df, min_reviews_per_week, week_start, version_label,
                   riskVars, slopeVars, migrationVars, clusterVars, pipelineVars,
                   reportVars, lateVars>>

\* The call self._name_spike(idx, df_with_version) that detect_event_timeline
\* makes for a week of its weekly frame: idx is the week's index label.
NameSpikeOfWeek ==
    /\ tpc = "done"
    /\ \E i \in 1..Len(timeline) :
          \E v \in _name_spike(timeline[i].week, SelectSeq(reviews_df, LAMBDA r : r.date # NaT)) :
             /\ week_start' = timeline[i].week
             /\ version_label' = v
    /\ tpc' = "named"
    /\ UNCHANGED <<pain_keywords, reviews_df, min_reviews_per_week, timeline, riskVars,
                   slopeVars, migrationVars, clusterVars, pipelineVars, reportVars,
                   lateVars>>

-----------------------------------------------------------------------------
(* AnomalyDetector: properties *)

\* The rows of reviews_df with a valid date.
DatedRows == {i \in 1..Len(reviews_df) : reviews_df[i].date # NaT}

\* The rows counted in the weekly bucket labelled l: its seven days end on l.
BucketRows(l) == {i \in DatedRows : l - 6 <= reviews_df[i].date /\ reviews_df[i].date <= l}

\* The labels of the weeks with at least min_reviews_per_week rows.
FullWeeks ==
    {l \in {WeekLabel(reviews_df[i].date) : i \in DatedRows} :
        Cardinality(BucketRows(l)) >= min_reviews_per_week}

\* C11: detect_event_timeline never gives an event to a week with fewer than
\* min_reviews_per_week rows, whatever its density: the timeline holds
\* exactly the weeks with at least that many rows (and is empty when there
\* are fewer than two of them), and whether a week is flagged is decided by
\* the rolling statistics of the timeline's own weeks alone.
C11_NoFlagBelowMinimum ==
    tpc \in {"done", "named"} =>
        /\ \A k \in 1..Len(timeline) :
              /\ timeline[k].total = Cardinality(BucketRows(timeline[k].week))
              /\ timeline[k].total >= min_reviews_per_week
              /\ (timeline[k].event # "None") <=> IsAnomaly(timeline, k)
        /\ \A j, k \in 1..Len(timeline) : j < k => timeline[j].week < timeline[k].week
        /\ {timeline[k].week : k \in 1..Len(timeline)} =
              (IF Cardinality(FullWeeks) >= 2 THEN FullWeeks ELSE {})

C11_Witness ==
    /\ tpc = "done"
    /\ min_reviews_per_week = 2
    /\ Len(timeline) = 2
    /\ \E i \in DatedRows :
          /\ Cardinality(BucketRows(WeekLabel(reviews_df[i].date))) = 1
          /\ PainWeight(reviews_df[i].text, pain_keywords) = WHALE_MULTIPLIER
          /\ \A k \in 1..Len(timeline) :
                /\ timeline[k].week # WeekLabel(reviews_df[i].date)
                /\ timeline[k].density = 0

\* How often the version v occurs in the bucket labelled l.
VersionCount(l, v) == Cardinality({i \in BucketRows(l) : reviews_df[i].version = v})

C13_DensityBetween0And1 ==
    tpc \in {"done", "named"} =>
        \A k \in 1..Len(timeline) : 0 <= timeline[k].density /\ timeline[k].density <= 10000

-----------------------------------------------------------------------------
(* MigrationDetector *)

TextSwitchedToOpal ==
    <<"I", " ", "s", "w", "i", "t", "c", "h", "e", "d", " ", "t", "o", " ",
      "O", "p", "a", "l", " ", "a", "n", "d", " ", "n", "e", "v", "e", "r",
      " ", "l", "o", "o", "k", "e", "d", " ", "b", "a", "c", "k">>

TextBetterThanOpal ==
    <<"B", "e", "t", "t", "e", "r", " ", "t", "h", "a", "n", " ", "O", "p",
      "a", "l", " ", "e", "v", "e", "r", " ", "w", "a", "s">>

TextMovedToForest ==
    <<"O", "p", "a", "l", " ", "u", "s", "e", "r", ",", " ", "M", "o", "v",
      "e", "d", " ", "t", "o", " ", "F", "o", "r", "e", "s", "t">>

TextSwitchedToOpalescent ==
    <<"s", "w", "i", "t", "c", "h", "e", "d", " ", "t", "o", " ", "O", "p",
      "a", "l", "e", "s", "c", "e", "n", "t">>

TextMigratedToScreenZen ==
    <<"M", "I", "G", "R", "A", "T", "E", "D", " ", " ", "t", "o", " ", "S",
      "c", "r", "e", "e", "n", " ", "Z", "e", "n">>

NameOpal == <<"O", "p", "a", "l">>
NameForest == <<"F", "o", "r", "e", "s", "t">>
NameScreenZen == <<"S", "c", "r", "e", "e", "n", "_", "Z", "e", "n">>

MigrationTexts ==
    {TextOk, TextSwitchedToOpal, TextBetterThanOpal, TextMovedToForest,
     TextSwitchedToOpalescent, TextMigratedToScreenZen}

CompetitorNames == {NameOpal, NameForest, NameScreenZen}

\* The competitor lists: the names of different apps of targets.json, in any
\* order.
CompetitorLists == UNION {Orders(S) : S \in SUBSET CompetitorNames}

\* The verbs of the churn pattern.
ChurnVerbs ==
    {<<"s", "w", "i", "t", "c", "h", "e", "d">>,
     <<"m", "o", "v", "e", "d">>,
     <<"m", "i", "g", "r", "a", "t", "e", "d">>,
     <<"c", "h", "a", "n", "g", "e", "d">>}

\* str.replace("_", " ")
UnderscoresToSpaces(str) == [i \in 1..Len(str) |-> IF str[i] = "_" THEN " " ELSE str[i]]

\* str.strip(): without the spaces at both ends.
Strip(str) ==
    LET inner == {i \in 1..Len(str) : str[i] # " "}
    IN  IF inner = {}
        THEN <<>>
        ELSE SubSeq(str, CHOOSE i \in inner : \A j \in inner : i <= j,
                         CHOOSE i \in inner : \A j \in inner : j <= i)

\* The pattern pat occurs in str at position i.
MatchAt(str, i, pat) ==
    i >= 1 /\ i + Len(pat) - 1 <= Len(str) /\ SubSeq(str, i, i + Len(pat) - 1) = pat

\* \s+ from position i: the positions after one or more spaces.
AfterSpaces(str, i) ==
    {q \in (i + 1)..(Len(str) + 1) : \A r \in i..(q - 1) : str[r] = " "}

\* re.search(rf"(?:switched|moved|migrated|changed)\s+to\s+{comp_escaped}", text)
ChurnSearch(text_lower, comp_lower) ==
    \E verb \in ChurnVerbs : \E i \in 1..Len(text_lower) :
        /\ MatchAt(text_lower, i, verb)
        /\ \E q \in AfterSpaces(text_lower, i + Len(verb)) :
              /\ MatchAt(text_lower, q, <<"t", "o">>)
              /\ \E q2 \in AfterSpaces(text_lower, q + 2) : MatchAt(text_lower, q2, comp_lower)

\* Any mention counts: the substring test without the pattern.
MentionFound(text, comp) ==
    Contains(Lower(text), UnderscoresToSpaces(Lower(comp)))

\* Lines 388-396: the competitor comp is found in churn context in text.
ChurnFound(text, comp) ==
    LET text_lower == Lower(text)
        comp_lower == UnderscoresToSpaces(Lower(comp))
    IN  IF ~Contains(text_lower, comp_lower)
        THEN FALSE
        ELSE ChurnSearch(text_lower, comp_lower)

\* churn_counts[comp] = churn_counts.get(comp, 0) + 1, the dictionary being
\* the sequence of its items in insertion order.
BumpCount(churn_counts, comp) ==
    IF \E k \in 1..Len(churn_counts) : churn_counts[k].competitor = comp
    THEN [k \in 1..Len(churn_counts) |->
             IF churn_counts[k].competitor = comp
             THEN [churn_counts[k] EXCEPT !.count = @ + 1]
             ELSE churn_counts[k]]
    ELSE Append(churn_counts, [competitor |-> comp, type |-> "churn", count |-> 1])

\* The loop over competitors_list for one text (lines 387-397).
RECURSIVE ScanCompetitors(_, _, _)
ScanCompetitors(churn_counts, text, comps) ==
    IF comps = <<>>
    THEN churn_counts
    ELSE ScanCompetitors(IF ChurnFound(text, Head(comps))
                         THEN BumpCount(churn_counts, Head(comps))
                         ELSE churn_counts,
                         text, Tail(comps))

\* The loop over text_series.items() (lines 382-397).
RECURSIVE ScanTexts(_, _, _)
ScanTexts(churn_counts, texts, comps) ==
    IF texts = <<>>
    THEN churn_counts
    ELSE ScanTexts(IF Len(Strip(Head(texts))) < 5
                   THEN churn_counts
                   ELSE ScanCompetitors(churn_counts, Head(texts), comps),
                   Tail(texts), comps)

\* ForensicAnalyzer.map_competitor_migration(text_series, competitors_list)
map_competitor_migration(texts, comps) ==
    IF texts = <<>> \/ comps = <<>>
    THEN <<>>
    ELSE ScanTexts(<<>>, texts, comps)

\* The call of map_competitor_migration.
MapCompetitorMigration ==
    /\ mpc = "start"
    /\ migration' = map_competitor_migration(text_series, competitors_list)
    /\ mpc' = "done"
    /\ UNCHANGED <<pain_keywords, text_series, competitors_list, riskVars, slopeVars,
                   timelineVars, clusterVars, pipelineVars,
                   reportVars, lateVars>>

-----------------------------------------------------------------------------
(* MigrationDetector: properties *)

\* The positions where a word of str starts, and the word that starts at i.
WordStarts(str) == {i \in 1..Len(str) : str[i] # " " /\ (i = 1 \/ str[i - 1] = " ")}

WordAt(str, i) ==
    SubSeq(str, i, CHOOSE j \in i..Len(str) :
                      /\ \A r \in i..j : str[r] # " "
                      /\ (j = Len(str) \/ str[j + 1] = " "))

NextWordStart(str, i) ==
    CHOOSE j \in WordStarts(str) : j > i /\ \A r \in WordStarts(str) : r > i => j <= r

EndsWith(word, suffix) ==
    Len(suffix) <= Len(word) /\ SubSeq(word, Len(word) - Len(suffix) + 1, Len(word)) = suffix

\* The positions of text where the name x stands right after a verb of
\* ChurnVerbs and the word "to", case-insensitively, the underscores of x
\* read as spaces.
ChurnMentions(text, x) ==
    LET str == Lower(text)
        name == UnderscoresToSpaces(Lower(x))
    IN  {p \in WordStarts(str) :
            \E v \in WordStarts(str) :
                /\ \E verb \in ChurnVerbs : EndsWith(WordAt(str, v), verb)
                /\ \E t \in WordStarts(str) :
                      /\ t = NextWordStart(str, v)
                      /\ WordAt(str, t) = <<"t", "o">>
                      /\ p = NextWordStart(str, t)
                      /\ MatchAt(str, p, name)}

IsWordChar(ch) ==
    \/ \E i \in 1..Len(LowerCase) : LowerCase[i] = ch \/ UpperCase[i] = ch
    \/ ch \in {"0", "1", "2", "3", "4", "5", "6", "7", "8", "9", "_"}

\* The mentions of ChurnMentions where the name is not the beginning of a
\* longer word.
WholeWordChurnMentions(text, x) ==
    {p \in ChurnMentions(text, x) :
        p + Len(x) > Len(text) \/ ~IsWordChar(text[p + Len(x)])}

Listed(x) == \E k \in 1..Len(competitors_list) : competitors_list[k] = x

EntriesOf(x) == {k \in 1..Len(migration) : migration[k].competitor = x}

\* C16: map_competitor_migration counts a text for the competitor X exactly
\* when the text has a verb of switched/moved/migrated/changed followed by
\* "to" followed by X; each text adds at most 1 per competitor, a competitor
\* without such a text is absent; "I switched to Opal and never looked back"
\* with [Opal] gives {Opal, churn, 1} and "Better than Opal ever was" alone
\* gives the empty list.
C16_CountsChurnMentionsOnly ==
    mpc = "done" =>
        /\ \A x \in CompetitorNames :
              LET n == Cardinality({i \in 1..Len(text_series) :
                                       ChurnMentions(text_series[i], x) # {}})
              IN  IF Listed(x) /\ n > 0
                  THEN /\ Cardinality(EntriesOf(x)) = 1
                       /\ \A k \in EntriesOf(x) :
                             migration[k].count = n /\ migration[k].type = "churn"
                  ELSE EntriesOf(x) = {}
        /\ \A k \in 1..Len(migration) : migration[k].competitor \in CompetitorNames
        /\ (text_series = <<TextSwitchedToOpal>> /\ competitors_list = <<NameOpal>>)
              => migration = <<[competitor |-> NameOpal, type |-> "churn", count |-> 1]>>
        /\ (text_series = <<TextBetterThanOpal>> /\ competitors_list = <<NameOpal>>)
              => migration = <<>>

C16_Witness ==
    /\ mpc = "done"
    /\ text_series = <<TextBetterThanOpal, TextSwitchedToOpal, TextMovedToForest>>
    /\ competitors_list = <<NameForest, NameOpal>>
    /\ migration = <<[competitor |-> NameOpal, type |-> "churn", count |-> 1],
                     [competitor |-> NameForest, type |-> "churn", count |-> 1]>>

\* C17: a text is counted for the competitor X only when X stands as a whole
\* word after "<verb> to": a text in which X is only the beginning of a
\* longer word is not counted for X.
C17_WholeWordMatchOnly ==
    mpc = "done" =>
        \A k \in 1..Len(migration) :
            migration[k].count <=
                Cardinality({i \in 1..Len(text_series) :
                    WholeWordChurnMentions(text_series[i], migration[k].competitor) # {}})

-----------------------------------------------------------------------------
(* ClusterMiner *)

\* A text is the sequence of its words, the matches of \b\w+\b, all in lower
\* case and separated by single spaces; a phrase is the sequence of its words.

\* ForensicAnalyzer.STOP_WORDS
STOP_WORDS ==
    {"the", "a", "an", "is", "are", "was", "were", "be", "been", "being",
     "have", "has", "had", "do", "does", "did", "will", "would", "could",
     "should", "may", "might", "must", "shall", "can", "need", "dare", "to",
     "of", "in", "for", "on", "with", "at", "by", "from", "as", "into",
     "through", "during", "before", "after", "above", "below", "good",
     "great", "nice", "love", "best", "awesome", "amazing"}

\* The generic phrases of extract_semantic_clusters (lines 327-330).
GenericPhrases ==
    {<<"good", "app">>, <<"great", "app">>, <<"best", "app">>,
     <<"nice", "app">>, <<"love", "it">>, <<"love", "this">>,
     <<"this", "app">>, <<"and", "there">>, <<"there", "s">>, <<"it", "s">>,
     <<"i", "m">>, <<"don", "t">>, <<"can", "t">>}

\* The generic phrases of _fallback_ngrams (lines 338-341).
FallbackGenericPhrases ==
    {<<"good", "app">>, <<"great", "app">>, <<"best", "app">>,
     <<"this", "app">>, <<"and", "there">>, <<"there", "s">>, <<"it", "s">>,
     <<"i", "m">>, <<"don", "t">>, <<"can", "t">>, <<"love", "it">>,
     <<"love", "this">>, <<"but", "i">>, <<"no", "way">>}

\* The words of the texts, in alphabetical order.
Alphabetical ==
    <<"and", "app", "back", "failed", "i", "it", "looked", "never", "ok", "opal", "s",
      "switched", "sync", "the", "this">>

WordRank(w) == CHOOSE k \in 1..Len(Alphabetical) : Alphabetical[k] = w

\* len() of the words joined by single spaces.
RECURSIVE JoinedLen(_)
JoinedLen(ws) ==
    IF ws = <<>> THEN 0
    ELSE IF Len(ws) = 1 THEN Len(ws[1])
    ELSE Len(ws[1]) + 1 + JoinedLen(Tail(ws))

\* The n-grams of a word sequence, in the order of their positions.
NGrams(ws, n) == [i \in 1..Max(0, Len(ws) - n + 1) |-> SubSeq(ws, i, i + n - 1)]

RECURSIVE Flatten(_)
Flatten(qs) == IF qs = <<>> THEN <<>> ELSE Head(qs) \o Flatten(Tail(qs))

\* How often x occurs in the sequence q.
Occurrences(q, x) == Cardinality({i \in 1..Len(q) : q[i] = x})

\* The string order of two phrases: the words compare by their characters
\* and a space sorts before every letter.
RECURSIVE PhraseLess(_, _)
PhraseLess(a, b) ==
    IF a = <<>> THEN b # <<>>
    ELSE IF b = <<>> THEN FALSE
    ELSE IF a[1] = b[1] THEN PhraseLess(Tail(a), Tail(b))
    ELSE WordRank(a[1]) < WordRank(b[1])

\* The items in feature order: sorted by the phrase.
SortedTerms(terms) ==
    [k \in 1..Cardinality(terms) |->
        CHOOSE t \in terms : Cardinality({u \in terms : PhraseLess(u, t)}) = k - 1]

\* The distinct items of q in the order of their first occurrence.
RECURSIVE FirstSeenOrder(_)
FirstSeenOrder(q) ==
    IF q = <<>> THEN <<>>
    ELSE LET r == FirstSeenOrder(SubSeq(q, 1, Len(q) - 1))
         IN  IF \E k \in 1..Len(r) : r[k] = q[Len(q)] THEN r ELSE Append(r, q[Len(q)])

\* A stable sort of the pairs <<phrase, count>> by the count, descending:
\* pairs.sort(key=lambda x: -x[1]) and Counter.most_common.
SortByCountDesc(pairs) ==
    [k \in 1..Len(pairs) |->
        pairs[CHOOSE i \in 1..Len(pairs) :
                 Cardinality({j \in 1..Len(pairs) :
                     pairs[j][2] > pairs[i][2] \/ (pairs[j][2] = pairs[i][2] /\ j < i)}) = k - 1]]

\* pairs[:top_n]
TopN(pairs, n) == SubSeq(pairs, 1, Min(n, Len(pairs)))

\* ForensicAnalyzer._fallback_ngrams(texts, top_n)
_fallback_ngrams(texts, n) ==
    LET words(text) == SelectSeq(text, LAMBDA w : w \notin STOP_WORDS)
        bigrams(text) ==
            SelectSeq(NGrams(words(text), 2),
                      LAMBDA g : JoinedLen(g) > 4 /\ g \notin FallbackGenericPhrases)
        trigrams(text) == SelectSeq(NGrams(words(text), 3), LAMBDA g : JoinedLen(g) > 6)
        all_ngrams == Flatten([i \in 1..Len(texts) |-> bigrams(texts[i]) \o trigrams(texts[i])])
        keys == FirstSeenOrder(all_ngrams)
        counts == [k \in 1..Len(keys) |-> <<keys[k], Occurrences(all_ngrams, keys[k])>>]
    IN  TopN(SortByCountDesc(counts), n)

\* The analyzer of CountVectorizer(ngram_range=(2, 3), stop_words=stop): the
\* tokens of two or more characters that are no stop words, then their 2- and
\* 3-grams.
VectorizerNGrams(text, stop) ==
    LET tokens == SelectSeq(text, LAMBDA w : Len(w) >= 2 /\ w \notin stop)
    IN  NGrams(tokens, 2) \o NGrams(tokens, 3)

\* CountVectorizer(..., max_features=100, min_df=2).fit_transform(texts)
\* raises ValueError: the vocabulary is empty, or there are fewer than min_df
\* documents, or no term is left with a document frequency of min_df.
VectorizerRaises(texts, stop) ==
    LET docs == [i \in 1..Len(texts) |-> VectorizerNGrams(texts[i], stop)]
    IN  \/ \A i \in 1..Len(texts) : docs[i] = <<>>
        \/ Len(texts) < 2
        \/ \A i \in 1..Len(texts) : \A k \in 1..Len(docs[i]) :
              Cardinality({j \in 1..Len(texts) : Occurrences(docs[j], docs[i][k]) > 0}) < 2

\* list(zip(terms, counts)): the terms of document frequency >= 2 in feature
\* order, each with its number of occurrences in all texts.  (max_features
\* keeps the 100 most frequent terms; the texts of the model have fewer.)
VectorizerPairs(texts, stop) ==
    LET docs == [i \in 1..Len(texts) |-> VectorizerNGrams(texts[i], stop)]
        all == Flatten(docs)
        terms == {all[k] : k \in 1..Len(all)}
        kept == {t \in terms :
                    Cardinality({j \in 1..Len(texts) : Occurrences(docs[j], t) > 0}) >= 2}
        sorted == SortedTerms(kept)
    IN  [k \in 1..Len(sorted) |-> <<sorted[k], Occurrences(all, sorted[k])>>]

\* ForensicAnalyzer.extract_semantic_clusters(text_series, (2, 3), top_n),
\* app_tokens being the words of self.app_name.
extract_semantic_clusters(series, n, app_tokens, has_sklearn) ==
    LET texts == SelectSeq(series, LAMBDA t : JoinedLen(t) > 3)
        stop == STOP_WORDS \cup app_tokens
    IN  IF series = <<>> \/ \A i \in 1..Len(series) : JoinedLen(series[i]) = 0
        THEN <<>>
        ELSE IF ~has_sklearn \/ VectorizerRaises(texts, stop)
        THEN _fallback_ngrams(texts, n)
        ELSE TopN(SortByCountDesc(
                      SelectSeq(VectorizerPairs(texts, stop),
                                LAMBDA pr : pr[1] \notin GenericPhrases /\ Len(pr[1]) >= 2)), n)

\* The call of extract_semantic_clusters, with an empty app_name.
ExtractSemanticClusters ==
    /\ cpc = "start"
    /\ clusters' = extract_semantic_clusters(cluster_texts, top_n, {}, HAS_SKLEARN)
    /\ cpc' = "done"
    /\ UNCHANGED <<pain_keywords, cluster_texts, HAS_SKLEARN, top_n, riskVars, slopeVars,
                   timelineVars, migrationVars, pipelineVars, reportVars, lateVars>>

-----------------------------------------------------------------------------
(* ClusterMiner: properties *)

IsSubSeqAt(ws, i, phrase) ==
    i + Len(phrase) - 1 <= Len(ws) /\ SubSeq(ws, i, i + Len(phrase) - 1) = phrase

\* The words of a text that are no stop words, and those of them that have
\* two or more characters.
ContentWords(text) == SelectSeq(text, LAMBDA w : w \notin STOP_WORDS)
LongContentWords(text) == SelectSeq(ContentWords(text), LAMBDA w : Len(w) >= 2)

\* The phrase occurs in the text: its words stand next to each other there,
\* the stop words (and possibly the one-character words) left out.
OccursIn(phrase, text) ==
    \/ \E i \in 1..Len(ContentWords(text)) : IsSubSeqAt(ContentWords(text), i, phrase)
    \/ \E i \in 1..Len(LongContentWords(text)) : IsSubSeqAt(LongContentWords(text), i, phrase)

\* The input texts in which the phrase occurs.
TextsWith(phrase) == {i \in 1..Len(cluster_texts) : OccursIn(phrase, cluster_texts[i])}

FirstTextWith(phrase) == CHOOSE i \in TextsWith(phrase) : \A j \in TextsWith(phrase) : i <= j

FirstPosition(phrase, text) ==
    CHOOSE i \in 1..Len(text) :
        IsSubSeqAt(text, i, phrase) /\ \A j \in 1..(i - 1) : ~IsSubSeqAt(text, j, phrase)

\* The phrase a is seen before the phrase b: in an earlier text, or in the
\* same text, both of the same length, at an earlier position.
SeenBefore(a, b) ==
    \/ FirstTextWith(a) < FirstTextWith(b)
    \/ /\ FirstTextWith(a) = FirstTextWith(b)
       /\ Len(a) = Len(b)
       /\ LET text == cluster_texts[FirstTextWith(a)]
          IN  /\ \E i \in 1..Len(text) : IsSubSeqAt(text, i, a)
              /\ \E i \in 1..Len(text) : IsSubSeqAt(text, i, b)
              /\ FirstPosition(a, text) < FirstPosition(b, text)

\* C18: every phrase extract_semantic_clusters returns occurs in at least
\* two of the input texts, on the vectorizer's path and on the path of
\* _fallback_ngrams; when no phrase is shared by two texts the result is
\* empty.
C18_MinimumDocumentFrequency ==
    cpc = "done" =>
        \A k \in 1..Len(clusters) : Cardinality(TextsWith(clusters[k][1])) >= 2

\* C19: extract_semantic_clusters returns at most top_n pairs of phrases of
\* two or three words, by count descending, and of two phrases with the same
\* count the one seen first in the input texts comes first.
C19_ByCountThenFirstSeen ==
    cpc = "done" =>
        /\ Len(clusters) <= top_n
        /\ \A k \in 1..Len(clusters) : Len(clusters[k][1]) \in {2, 3} /\ clusters[k][2] >= 1
        /\ \A j, k \in 1..Len(clusters) :
              j < k => /\ clusters[j][2] >= clusters[k][2]
                       /\ clusters[j][2] = clusters[k][2]
                             => ~SeenBefore(clusters[k][1], clusters[j][1])

-----------------------------------------------------------------------------
(* ForensicPipeline *)

\* A raw review is the dictionary of the scraper: a function of the keys it
\* has.  Dates are day numbers; Unparsable stands for a value that
\* pd.to_datetime(errors="coerce") turns into NaT, and Today for
\* pd.Timestamp.now.
Unparsable == -2
Today == 28

DATE_COLS == <<"date", "reviewDate", "createdAt", "updatedAt">>
SCORE_COLS == <<"score", "rating", "starRating", "stars">>
TEXT_COLS == <<"text", "reviewText", "content", "body", "comment">>

TextSyncFailed == <<"s", "y", "n", "c", " ", "f", "a", "i", "l", "e", "d">>

\* pd.DataFrame(reviews).columns: the keys of all the reviews.
FrameColumns(reviews) == UNION {DOMAIN reviews[i] : i \in 1..Len(reviews)}

\* next((c for c in cols if c in df.columns), None)
FirstColumn(cols, present) ==
    IF \E k \in 1..Len(cols) : cols[k] \in present
    THEN cols[CHOOSE k \in 1..Len(cols) :
                 cols[k] \in present /\ \A j \in 1..(k - 1) : cols[j] \notin present]
    ELSE "None"

\* pd.to_datetime(df[date_col], errors="coerce", utc=True) for one row, or
\* the current time without a date column; a missing cell is NaN, then NaT.
NormalDate(item, date_col) ==
    IF date_col = "None" THEN Today
    ELSE IF date_col \in DOMAIN item /\ item[date_col] # Unparsable THEN item[date_col]
    ELSE NaT

\* pd.to_numeric(df[score_col], errors="coerce").fillna(3).astype(int).clip(1, 5)
NormalScore(item, score_col) ==
    IF score_col = "None" THEN 3
    ELSE IF score_col \in DOMAIN item THEN Max(1, Min(5, item[score_col]))
    ELSE 3

\* df[text_col].fillna("").astype(str), with the title before it.
NormalText(item, text_col, has_title) ==
    LET body == IF text_col # "None" /\ text_col \in DOMAIN item THEN item[text_col] ELSE <<>>
        title == IF "title" \in DOMAIN item THEN item["title"] ELSE <<>>
    IN  IF has_title THEN Strip(title \o <<" ">> \o body) ELSE body

\* ForensicAnalyzer._reviews_to_dataframe(reviews): the rows, each with the
\* index of its review.
_reviews_to_dataframe(reviews) ==
    LET present == FrameColumns(reviews)
        date_col == FirstColumn(DATE_COLS, present)
        score_col == FirstColumn(SCORE_COLS, present)
        text_col == FirstColumn(TEXT_COLS, present)
        rows == [i \in 1..Len(reviews) |->
                    [idx |-> i,
                     date |-> NormalDate(reviews[i], date_col),
                     score |-> NormalScore(reviews[i], score_col),
                     text |-> NormalText(reviews[i], text_col, "title" \in present),
                     version |-> IF "version" \in DOMAIN reviews[i]
                                 THEN reviews[i]["version"] ELSE ""]]
    IN  SelectSeq(rows, LAMBDA r : r.date # NaT)

\* Steps 1 and 2 of Analyzer.analyze: the rows left when the date column is
\* normalised.
AnalyzeDates(reviews) ==
    LET date_col == FirstColumn(DATE_COLS, FrameColumns(reviews))
        rows == [i \in 1..Len(reviews) |->
                    [idx |-> i, date |-> NormalDate(reviews[i], date_col)]]
    IN  SelectSeq(rows, LAMBDA r : r.date # NaT)

\* re.findall(r"\b\w+\b", text.lower()) for the texts of the reviews and the
\* app names.
WordsOf(text) ==
    CASE text = TextOk -> <<"ok">>
      [] text = TextSyncFailed -> <<"sync", "failed">>
      [] text = TextSwitchedToOpal ->
             <<"i", "switched", "to", "opal", "and", "never", "looked", "back">>
      [] text = NameOpal -> <<"opal">>
      [] text = NameForest -> <<"forest">>
      [] OTHER -> <<>>

\* str.replace(" ", "_")
SpacesToUnderscores(str) == [i \in 1..Len(str) |-> IF str[i] = " " THEN "_" ELSE str[i]]

\* The competitors main.py hands to run_forensic: the names of all the apps.
ForensicCompetitors == <<NameOpal, NameForest>>

\* ForensicAnalyzer.run_forensic(reviews, app_name, competitors) from the
\* DataFrame on: the dictionaries it can return.
ForensicResults(frame, name, competitors, pk, has_sklearn) ==
    LET comps == SelectSeq(competitors,
                           LAMBDA c : Lower(c) # SpacesToUnderscores(Lower(name)))
        negative_df == SelectSeq(frame, LAMBDA r : r.score <= 2)
        app_tokens == {WordsOf(name)[k] : k \in 1..Len(WordsOf(name))}
    IN  IF frame = <<>>
        THEN {[timeline |-> <<>>, clusters |-> <<>>, migration |-> <<>>]}
        ELSE {[timeline |-> tl,
               clusters |-> extract_semantic_clusters(
                                [i \in 1..Len(negative_df) |-> WordsOf(negative_df[i].text)],
                                5, app_tokens, has_sklearn),
               migration |-> map_competitor_migration(
                                 [i \in 1..Len(frame) |-> frame[i].text], comps)] :
              tl \in EventTimelines(frame, 5, pk)}

\* The call run_forensic(raw_reviews, app_name, competitors).
run_forensic ==
    /\ fpc = "start"
    /\ forensic_df' = _reviews_to_dataframe(raw_reviews)
    /\ intelligence' \in ForensicResults(forensic_df', app_name, ForensicCompetitors,
                                         pain_keywords, HAS_SKLEARN)
    /\ fpc' = "done"
    /\ UNCHANGED <<pain_keywords, raw_reviews, app_name, apc, analyze_df, riskVars,
                   slopeVars, timelineVars, migrationVars, clusterVars, reportVars,
                   lateVars>>

\* The call Analyzer.analyze(raw_reviews, app_name, days_back), up to the
\* normalised date column.
AnalyzeNormalizeDates ==
    /\ apc = "start"
    /\ analyze_df' = AnalyzeDates(raw_reviews)
    /\ apc' = "done"
    /\ UNCHANGED <<pain_keywords, raw_reviews, app_name, fpc, forensic_df, intelligence,
                   riskVars, slopeVars, timelineVars, migrationVars, clusterVars,
                   reportVars, lateVars>>

-----------------------------------------------------------------------------
(* ForensicPipeline: properties *)

\* The first of the date aliases the review itself has, "None" without one.
OwnDateAlias(item) == FirstColumn(DATE_COLS, DOMAIN item)

\* The reviews whose own date cannot be parsed.
UnparsableReviews ==
    {i \in 1..Len(raw_reviews) :
        OwnDateAlias(raw_reviews[i]) # "None"
        /\ raw_reviews[i][OwnDateAlias(raw_reviews[i])] = Unparsable}

\* The rows the text-only analyses work on when the reviews of unparsable
\* date are kept for them: the rows of the DataFrame and those reviews, in
\* the order of the reviews.
TextOnlyRows ==
    LET present == FrameColumns(raw_reviews)
        rows == [i \in 1..Len(raw_reviews) |->
                    [idx |-> i,
                     date |-> NaT,
                     score |-> NormalScore(raw_reviews[i], FirstColumn(SCORE_COLS, present)),
                     text |-> NormalText(raw_reviews[i], FirstColumn(TEXT_COLS, present),
                                         "title" \in present),
                     version |-> ""]]
    IN  SelectSeq(rows, LAMBDA r : r.idx \in UnparsableReviews
                                   \/ \E k \in 1..Len(forensic_df) : forensic_df[k].idx = r.idx)

\* C14: a review whose date cannot be parsed is left out of the dated rows of
\* run_forensic, and its text is still scanned: the clusters and the
\* migration of the result are those of the rows with these reviews kept.
C14_UnparsableDateKeptForText ==
    (fpc = "done" /\ UnparsableReviews # {}) =>
        /\ \A k \in 1..Len(forensic_df) : forensic_df[k].idx \notin UnparsableReviews
        /\ \E r \in ForensicResults(TextOnlyRows, app_name, ForensicCompetitors,
                                    pain_keywords, HAS_SKLEARN) :
              /\ intelligence.clusters = r.clusters
              /\ intelligence.migration = r.migration

\* C15: every review gets the date of the first date alias it has itself: a
\* review whose own first alias holds a date is a row of the DataFrame of
\* run_forensic and of Analyzer.analyze, with that date.
C15_DatePerItem ==
    \A i \in 1..Len(raw_reviews) :
        LET a == OwnDateAlias(raw_reviews[i])
        IN  (a # "None" /\ raw_reviews[i][a] # Unparsable) =>
                /\ fpc = "done" =>
                       \E k \in 1..Len(forensic_df) :
                           forensic_df[k].idx = i /\ forensic_df[k].date = raw_reviews[i][a]
                /\ apc = "done" =>
                       \E k \in 1..Len(analyze_df) :
                           analyze_df[k].idx = i /\ analyze_df[k].date = raw_reviews[i][a]

-----------------------------------------------------------------------------
(* LeaderboardAggregator *)

\* A file of the data directory is [loads, analysis]: whether json.load
\* succeeds, and the dictionary it gives, [app_name, metrics, signals], the
\* signals being a function of the keys they have.

\* signals.get("monthly_leakage_usd", 0.0)
MonthlyLeakage(analysis) ==
    IF "monthly_leakage_usd" \in DOMAIN analysis.signals
    THEN analysis.signals["monthly_leakage_usd"]
    ELSE 0

\* Steps 2 and 3 of aggregate_leaderboard: the rows of df_data, one for each
\* file that loads.
LeaderboardData(files) ==
    LET loaded == SelectSeq(files, LAMBDA f : f.loads)
    IN  [i \in 1..Len(loaded) |->
            [app_name |-> loaded[i].analysis.app_name,
             risk_score |-> loaded[i].analysis.metrics.risk_score,
             monthly_leakage_usd |-> MonthlyLeakage(loaded[i].analysis)]]

\* df.sort_values("monthly_leakage_usd", ascending=False).reset_index(drop=True):
\* rows of equal leakage keep their order (the sort of a frame this short is
\* an insertion sort).
SortByLeakageDesc(rows) ==
    [k \in 1..Len(rows) |->
        rows[CHOOSE i \in 1..Len(rows) :
                Cardinality({j \in 1..Len(rows) :
                    \/ rows[j].monthly_leakage_usd > rows[i].monthly_leakage_usd
                    \/ (rows[j].monthly_leakage_usd = rows[i].monthly_leakage_usd /\ j < i)})
                = k - 1]]

\* df.insert(0, "rank", range(1, len(df) + 1))
InsertRank(rows) ==
    [k \in 1..Len(rows) |->
        [rank |-> k,
         app_name |-> rows[k].app_name,
         risk_score |-> rows[k].risk_score,
         monthly_leakage_usd |-> rows[k].monthly_leakage_usd]]

\* Reporter.aggregate_leaderboard(data_dir): the rows of the table it writes,
\* none for the empty leaderboard.
aggregate_leaderboard ==
    /\ lpc = "start"
    /\ leaderboard' = IF analyses = <<>> \/ LeaderboardData(analyses) = <<>>
                      THEN <<>>
                      ELSE InsertRank(SortByLeakageDesc(LeaderboardData(analyses)))
    /\ lpc' = "done"
    /\ UNCHANGED <<pain_keywords, analyses, riskVars, slopeVars, forensicVars, pipelineVars,
                   lateVars>>

-----------------------------------------------------------------------------
(* LeaderboardAggregator: properties *)

\* The files of results of Analyzer.analyze: their signals have no
\* monthly_leakage_usd.
ProducedByAnalyze ==
    \A i \in 1..Len(analyses) :
        analyses[i].loads => "monthly_leakage_usd" \notin DOMAIN analyses[i].analysis.signals

\* C20: the leaderboard of results of Analyzer.analyze lists the apps by
\* descending risk score, with the ranks 1..n in that order.
C20_RankedByRiskScore ==
    (lpc = "done" /\ ProducedByAnalyze) =>
        /\ \A k \in 1..Len(leaderboard) : leaderboard[k].rank = k
        /\ \A k \in 1..(Len(leaderboard) - 1) :
              leaderboard[k].risk_score >= leaderboard[k + 1].risk_score

-----------------------------------------------------------------------------
(* NicheMatrix *)

\* An analysis is [app_name, signals], the signals being a function of the
\* keys they have; pillar_densities is a function of the pillars it has, the
\* densities being numbers of ten-thousandths (analyze rounds them to four
\* decimals).  A matrix value is a number of hundredths.

\* a.get("signals", {}).get("pillar_densities", {})
PillarDensitiesOf(a) ==
    IF "pillar_densities" \in DOMAIN a.signals THEN a.signals["pillar_densities"] ELSE <<>>

\* round(min(100.0, float(pillar_densities.get(p, 0)) * 10), 2)
MatrixScore(ds, p) ==
    IF p \in DOMAIN ds THEN RoundHalfEven(Min(ds[p], 100 * 1000), 10) ELSE 0

\* The row of one analysis (lines 419-429).
MatrixRow(a) ==
    IF DOMAIN PillarDensitiesOf(a) = {}
    THEN [p \in PillarSet |-> 0]
    ELSE [p \in PillarSet |-> MatrixScore(PillarDensitiesOf(a), p)]

\* ForensicAnalyzer.generate_matrix(analyses): matrix[app_name] is assigned
\* for each analysis in turn, so the last analysis of a name gives its row.
generate_matrix(list) ==
    LET names == {list[i].app_name : i \in 1..Len(list)}
        last(n) == CHOOSE i \in 1..Len(list) :
                       list[i].app_name = n /\ \A j \in (i + 1)..Len(list) : list[j].app_name # n
    IN  [n \in names |-> MatrixRow(list[last(n)])]

\* The call generate_matrix(matrix_analyses).
GenerateMatrix ==
    /\ xpc = "start"
    /\ matrix' = generate_matrix(matrix_analyses)
    /\ xpc' = "done"
    /\ UNCHANGED <<matrix_analyses, exceptMatrix>>

-----------------------------------------------------------------------------
(* NicheMatrix: properties *)

\* The analysis that gives the row of the app n.
RowSource(n) ==
    matrix_analyses[CHOOSE i \in 1..Len(matrix_analyses) :
                       /\ matrix_analyses[i].app_name = n
                       /\ \A j \in (i + 1)..Len(matrix_analyses) :
                             matrix_analyses[j].app_name # n]

\* C21: the matrix has one row for each app; each value is
\* min(100, density * 10) and so lies in 0..100; an app without pillar
\* densities has the row of three zeros.
C21_MatrixValues ==
    xpc = "done" =>
        /\ DOMAIN matrix = {matrix_analyses[i].app_name : i \in 1..Len(matrix_analyses)}
        /\ \A n \in DOMAIN matrix : \A p \in PillarSet :
              LET ds == PillarDensitiesOf(RowSource(n))
              IN  /\ matrix[n][p] >= 0 /\ matrix[n][p] <= 100 * 100
                  /\ p \in DOMAIN ds => 10 * matrix[n][p] = Min(100 * 1000, ds[p])
                  /\ DOMAIN ds = {} => matrix[n][p] = 0

-----------------------------------------------------------------------------
(* main *)

\* The statements of the configuration block (lines 49-65), in order.
ConfigSteps ==
    <<"load_targets", "validate_targets", "mkdir", "load_pain_keywords",
      "validate_pain_keywords", "load_settings", "validate_settings">>

\* The handler of the block falls through to the next block.
ConfigExceptPass == [pc |-> "init", status |-> -1]

\* except Exception as e: print(...); sys.exit(1) (lines 69-71)
ConfigExcept == [pc |-> "config_error", status |-> 1]

\* One statement of the configuration block: it raises or it does not.
LoadAndValidate(raises) ==
    /\ main_pc = "config"
    /\ IF raises
       THEN /\ config_error' = ConfigSteps[config_step]
            /\ main_pc' = ConfigExcept.pc
            /\ exit_status' = ConfigExcept.status
            /\ UNCHANGED config_step
       ELSE /\ IF config_step = Len(ConfigSteps)
               THEN main_pc' = "init" /\ UNCHANGED config_step
               ELSE config_step' = config_step + 1 /\ UNCHANGED main_pc
            /\ UNCHANGED <<config_error, exit_status>>
    /\ UNCHANGED <<smoke_test, targets_apps, apps_to_process, idx, app_pc, has_reviews,
                   successful_apps, failed_apps, attempted, fetched, raised,
                   leaderboard_file, exceptMain>>

\* Lines 73-100: the Fetcher is made (or the run ends with status 1), then
\* the other components, apps_to_process and the empty result lists.
InitComponents(raises) ==
    /\ main_pc = "init"
    /\ IF raises
       THEN /\ main_pc' = "init_error"
            /\ exit_status' = 1
            /\ UNCHANGED apps_to_process
       ELSE /\ main_pc' = "loop"
            /\ apps_to_process' = IF smoke_test
                                  THEN SubSeq(targets_apps, 1, Min(1, Len(targets_apps)))
                                  ELSE targets_apps
            /\ UNCHANGED exit_status
    /\ UNCHANGED <<config_step, config_error, smoke_test, targets_apps, idx, app_pc,
                   has_reviews, successful_apps, failed_apps, attempted, fetched, raised,
                   leaderboard_file, exceptMain>>

\* for idx, app in enumerate(apps_to_process, 1): the next app.
NextApp ==
    /\ main_pc = "loop" /\ app_pc = "idle"
    /\ idx < Len(apps_to_process)
    /\ idx' = idx + 1
    /\ attempted' = Append(attempted, idx + 1)
    /\ app_pc' = "url"
    /\ UNCHANGED <<main_pc, config_step, config_error, exit_status, smoke_test, targets_apps,
                   apps_to_process, has_reviews, successful_apps, failed_apps, fetched,
                   raised, leaderboard_file, exceptMain>>

\* The handler records nothing.
ExceptBlockSilent(failed, app, error_msg, smoke) ==
    [failed |-> failed,
     pc |-> IF smoke THEN "smoke_failed" ELSE "loop",
     status |-> IF smoke THEN 1 ELSE -1]

\* except Exception as e (lines 194-215): the failure is recorded; in smoke
\* test mode the run ends with status 1, otherwise the loop continues.
ExceptBlock(failed, app, error_msg, smoke) ==
    [failed |-> Append(failed, [name |-> app.name, error |-> error_msg]),
     pc |-> IF smoke THEN "smoke_failed" ELSE "loop",
     status |-> IF smoke THEN 1 ELSE -1]

\* An exception with the message error_msg leaves the try block.
Raise(error_msg) ==
    LET h == ExceptBlock(failed_apps, apps_to_process[idx], error_msg, smoke_test)
    IN  /\ raised' = Append(raised, [idx |-> idx, error |-> error_msg])
        /\ failed_apps' = h.failed
        /\ main_pc' = h.pc
        /\ exit_status' = h.status
        /\ app_pc' = "idle"

\* except KeyboardInterrupt: sys.exit(0) (lines 189-193)
KeyboardInterrupt ==
    /\ main_pc' = "interrupted"
    /\ exit_status' = 0
    /\ app_pc' = "idle"
    /\ UNCHANGED <<raised, failed_apps>>

\* Lines 111-113: the URL of the app.
CheckUrl ==
    /\ main_pc = "loop" /\ app_pc = "url"
    /\ IF apps_to_process[idx].url = ""
       THEN Raise("has no valid URL")
       ELSE /\ app_pc' = "fetch"
            /\ UNCHANGED <<main_pc, exit_status, failed_apps, raised>>
    /\ UNCHANGED <<config_step, config_error, smoke_test, targets_apps, apps_to_process, idx,
                   has_reviews, successful_apps, attempted, fetched, leaderboard_file,
                   exceptMain>>

\* Lines 115-123: fetcher.fetch_reviews returns, raises or is interrupted.
FetchReviews(outcome) ==
    /\ main_pc = "loop" /\ app_pc = "fetch"
    /\ fetched' = Append(fetched, idx)
    /\ CASE outcome = "returns" ->
                /\ app_pc' = "filter"
                /\ UNCHANGED <<main_pc, exit_status, failed_apps, raised>>
         [] outcome = "raises" -> Raise("fetch failed")
         [] outcome = "interrupted" -> KeyboardInterrupt
    /\ UNCHANGED <<config_step, config_error, smoke_test, targets_apps, apps_to_process, idx,
                   has_reviews, successful_apps, attempted, leaderboard_file, exceptMain>>

\* Lines 125-127: fetcher.filter_reviews leaves some reviews or none.
FilterReviews(some) ==
    /\ main_pc = "loop" /\ app_pc = "filter"
    /\ has_reviews' = some
    /\ app_pc' = "save"
    /\ UNCHANGED <<main_pc, config_step, config_error, exit_status, smoke_test, targets_apps,
                   apps_to_process, idx, successful_apps, failed_apps, attempted, fetched,
                   raised, leaderboard_file, exceptMain>>

\* Lines 129-133: fetcher.save_reviews writes the file or raises.
SaveReviews(raises) ==
    /\ main_pc = "loop" /\ app_pc = "save"
    /\ IF raises
       THEN Raise("save failed")
       ELSE /\ app_pc' = "analyze"
            /\ UNCHANGED <<main_pc, exit_status, failed_apps, raised>>
    /\ UNCHANGED <<config_step, config_error, smoke_test, targets_apps, apps_to_process, idx,
                   has_reviews, successful_apps, attempted, fetched, leaderboard_file,
                   exceptMain>>

\* Lines 136-187.  With reviews, analyzer.analyze is called with the keyword
\* app_config, which Analyzer.analyze (analyzer.py:365) does not have: the
\* call raises TypeError and the statements after it (153-184) are not
\* reached.  Without reviews the app is listed as successful, "(no reviews)".
AnalyzeReviews ==
    /\ main_pc = "loop" /\ app_pc = "analyze"
    /\ IF has_reviews
       THEN /\ Raise("analyze() got an unexpected keyword argument 'app_config'")
            /\ UNCHANGED successful_apps
       ELSE /\ successful_apps' =
                   Append(successful_apps,
                          [name |-> apps_to_process[idx].name, no_reviews |-> TRUE])
            /\ app_pc' = "idle"
            /\ UNCHANGED <<main_pc, exit_status, failed_apps, raised>>
    /\ UNCHANGED <<config_step, config_error, smoke_test, targets_apps, apps_to_process, idx,
                   has_reviews, attempted, fetched, leaderboard_file, exceptMain>>

\* The loop is over.
EndLoop ==
    /\ main_pc = "loop" /\ app_pc = "idle"
    /\ idx = Len(apps_to_process)
    /\ main_pc' = "summary"
    /\ UNCHANGED <<config_step, config_error, exit_status, smoke_test, targets_apps,
                   apps_to_process, idx, app_pc, has_reviews, successful_apps, failed_apps,
                   attempted, fetched, raised, leaderboard_file, exceptMain>>

\* Lines 217-271: the summary; the leaderboard when there is a successful
\* app and no smoke test (no niche report: analyses_for_niche is empty); then
\* status 1 when an app failed and it is no smoke test, else the normal end.
Summary(raises) ==
    /\ main_pc = "summary"
    /\ leaderboard_file' = IF successful_apps # <<>> /\ ~smoke_test
                           THEN (IF raises THEN "failed" ELSE "written")
                           ELSE "none"
    /\ exit_status' = IF failed_apps # <<>> /\ ~smoke_test THEN 1 ELSE 0
    /\ main_pc' = "done"
    /\ UNCHANGED <<config_step, config_error, smoke_test, targets_apps, apps_to_process, idx,
                   app_pc, has_reviews, successful_apps, failed_apps, attempted, fetched,
                   raised, exceptMain>>

-----------------------------------------------------------------------------
(* main: properties *)

\* C22: no app is fetched or analysed before every statement of the
\* configuration block has passed, and when one of them raises the run ends
\* with status 1 and the loop is never entered.
C22_ConfigErrorsAbortBeforeLoop ==
    /\ (attempted # <<>> \/ fetched # <<>> \/ main_pc = "loop") =>
           (config_step = Len(ConfigSteps) /\ config_error = "none")
    /\ config_error # "none" =>
           /\ exit_status = 1
           /\ main_pc = "config_error"
           /\ attempted = <<>> /\ fetched = <<>>
           /\ successful_apps = <<>> /\ failed_apps = <<>>

\* A statement of the block has raised, after the targets were validated.
C22_Witness ==
    /\ config_error = "validate_settings"
    /\ exit_status = 1
    /\ Len(targets_apps) >= 2

InSuccessful(i) ==
    \E k \in 1..Len(successful_apps) : successful_apps[k].name = apps_to_process[i].name

InFailed(i) ==
    \E k \in 1..Len(failed_apps) : failed_apps[k].name = apps_to_process[i].name

\* C23: in normal mode every exception raised in the loop body is recorded
\* in failed_apps with the name of the app and the message, the later apps
\* are still processed, and at the end of the loop every app has been
\* attempted once and is in exactly one of successful_apps and failed_apps.
C23_FailuresRecordedLoopContinues ==
    ~smoke_test =>
        /\ failed_apps = [k \in 1..Len(raised) |->
                             [name |-> apps_to_process[raised[k].idx].name,
                              error |-> raised[k].error]]
        /\ (raised # <<>> /\ main_pc = "done") => exit_status = 1
        /\ main_pc \in {"summary", "done"} =>
              /\ attempted = [i \in 1..Len(apps_to_process) |-> i]
              /\ \A i \in 1..Len(apps_to_process) : InSuccessful(i) # InFailed(i)
              /\ Len(successful_apps) + Len(failed_apps) = Len(apps_to_process)

\* The first app failed, a later one failed with another error and one had
\* no reviews.
C23_Witness ==
    /\ ~smoke_test /\ main_pc = "done"
    /\ Len(apps_to_process) = 3
    /\ Len(raised) = 2 /\ raised[1].idx = 1 /\ raised[2].error # raised[1].error
    /\ Len(successful_apps) = 1

-----------------------------------------------------------------------------
(* Analyzer.analyze *)

\* A result of analyze keeps negative_ratio as a number of thousandths,
\* volatility_slope and the pillar densities as numbers of ten-thousandths
\* and risk_score as a number of hundredths.  The time is a day number.

\* str(nan): the text of a row whose review has no "text".
TextNan == <<"n", "a", "n">>

\* The values of the column "version", in the order groupby sorts them.
VersionOrder == <<"1.0", "2.0">>

\* Steps 1 to 3 of analyze at the time now: the DataFrame with the normalised
\* date and score, each row with the index of its review.  A missing cell of
\* "text", "title" or "version" is NaN: has_text tells whether "text" is.
AnalyzeFrame(reviews, now) ==
    LET present == FrameColumns(reviews)
        date_col == FirstColumn(DATE_COLS, present)
        score_col == FirstColumn(SCORE_COLS, present)
        rows == [i \in 1..Len(reviews) |->
                    [idx |-> i,
                     date |-> IF date_col = "None" THEN now
                              ELSE NormalDate(reviews[i], date_col),
                     score |-> NormalScore(reviews[i], score_col),
                     has_text |-> "text" \in DOMAIN reviews[i],
                     text |-> IF "text" \in DOMAIN reviews[i]
                              THEN reviews[i]["text"] ELSE <<>>,
                     title |-> IF "title" \in DOMAIN reviews[i]
                               THEN reviews[i]["title"] ELSE <<>>,
                     version |-> IF "version" \in DOMAIN reviews[i]
                                 THEN reviews[i]["version"] ELSE ""]]
    IN  SelectSeq(rows, LAMBDA r : r.date # NaT)

\* The columns of that DataFrame.
AnalyzeColumns(reviews) == FrameColumns(reviews) \cup {"date", "score"}

\* Analyzer.filter_by_date(df, days_back) at the time now.
filter_by_date(frame, days, now) ==
    SelectSeq(frame, LAMBDA r : r.date >= now - days)

\* The match on the column "text" alone, whatever the columns.
CategoryMatchTextOnly(row, cols, c, pk) ==
    \E kw \in pk.keywords[c] : Contains(Lower(row.text), Lower(kw))

\* Whether the combined text of a row holds a keyword of the category c.
CategoryMatch(row, cols, c, pk) ==
    LET combined_text == IF "title" \in cols
                         THEN Lower(row.title \o <<" ">> \o row.text)
                         ELSE Lower(row.text)
    IN  \E kw \in pk.keywords[c] : Contains(combined_text, Lower(kw))

\* The reviews of the frame that match the category c.
CategoryMatches(frame, cols, c, pk) ==
    {frame[i].idx : i \in {j \in 1..Len(frame) : CategoryMatch(frame[j], cols, c, pk)}}

\* Analyzer.calculate_keyword_density(df): the dictionary of the counts, the
\* categories without keywords being skipped.
calculate_keyword_density(frame, cols, pk) ==
    IF frame = <<>> \/ "text" \notin cols \/ ~pk.loaded
    THEN <<>>
    ELSE [c \in {k \in DOMAIN pk.keywords : pk.keywords[k] # {}} |->
             Cardinality(CategoryMatches(frame, cols, c, pk))]

\* The items inserted so far are in descending order of their key; p goes
\* behind the items whose key is at least its own.
RECURSIVE InsertDesc(_, _)
InsertDesc(sorted, p) ==
    IF sorted = <<>> THEN <<p>>
    ELSE IF sorted[Len(sorted)][1] >= p[1] THEN Append(sorted, p)
    ELSE Append(InsertDesc(SubSeq(sorted, 1, Len(sorted) - 1), p), sorted[Len(sorted)])

\* A stable sort of <<key, item>> pairs by descending key: list.sort with
\* reverse=True and nlargest with keep="first".
RECURSIVE SortDescByKey(_)
SortDescByKey(pairs) ==
    IF pairs = <<>> THEN <<>>
    ELSE InsertDesc(SortDescByKey(SubSeq(pairs, 1, Len(pairs) - 1)), pairs[Len(pairs)])

\* Step 10 of analyze: the version with the most pain reviews, if it has more
\* than 30% of them.
VersionImpact(negative_reviews, cols) ==
    LET size == [k \in 1..Len(VersionOrder) |->
                    Cardinality({i \in 1..Len(negative_reviews) :
                                    negative_reviews[i].version = VersionOrder[k]})]
        groups == {k \in 1..Len(VersionOrder) : size[k] > 0}
        idxmax == CHOOSE k \in groups :
                      /\ \A j \in groups : size[j] <= size[k]
                      /\ \A j \in groups : j < k => size[j] < size[k]
    IN  IF "version" \in cols /\ groups # {}
           /\ 10 * size[idxmax] > 3 * Len(negative_reviews)
        THEN [broken_update_detected |-> TRUE, suspected_version |-> VersionOrder[idxmax]]
        ELSE [broken_update_detected |-> FALSE, suspected_version |-> "None"]

\* Step 11 of analyze: the categories with matches, by descending impact.
TopPainCategories(order, counts, pk) ==
    LET listed == SelectSeq(order, LAMBDA c : counts[c] > 0 /\ c \in DOMAIN pk.weight)
        sorted == SortDescByKey([k \in 1..Len(listed) |->
                     <<counts[listed[k]] * pk.weight[listed[k]],
                       [category |-> listed[k], count |-> counts[listed[k]],
                        weight |-> pk.weight[listed[k]]]>>])
    IN  [k \in 1..Min(5, Len(sorted)) |-> sorted[k][2]]

\* Step 12 of analyze: the texts of the five longest pain reviews.
Evidence(negative_reviews) ==
    LET shown == [k \in 1..Len(negative_reviews) |->
                     IF negative_reviews[k].has_text THEN negative_reviews[k].text
                     ELSE TextNan]
        sorted == SortDescByKey([k \in 1..Len(shown) |-> <<Len(shown[k]), shown[k]>>])
        first == [k \in 1..Min(5, Len(sorted)) |-> sorted[k][2]]
    IN  SelectSeq(first, LAMBDA t : t # <<>>)

\* Analyzer._empty_analysis_result(app_name) at the time now.
EmptyAnalysisResult(app, now) ==
    [app_name |-> app,
     analysis_date |-> now,
     metrics |-> [total_reviews_90d |-> 0, negative_ratio |-> 0, volatility_slope |-> 0,
                  risk_score |-> 0],
     signals |-> [broken_update_detected |-> FALSE,
                  suspected_version |-> "None",
                  top_pain_categories |-> <<>>,
                  pillar_densities |-> [p \in PillarSet |-> 0],
                  primary_pillar |-> "None"],
     evidence |-> <<>>]

\* What a call of analyze that returns the empty result leaves behind.
EmptyRun(app, now) ==
    [now |-> now, measured |-> FALSE, analysed |-> {}, has_pain_keyword |-> {},
     total_reviews |-> 0, negative_count |-> 0, negative_ratio |-> <<0, 1>>,
     category_counts |-> <<>>, category_matches |-> <<>>,
     result |-> EmptyAnalysisResult(app, now)]

\* Analyzer.analyze(reviews, app, days) at the time now, under the taxonomy
\* pk whose categories are in the order `order`: the locals of steps 5 and 7
\* and the result.
Analyze(reviews, app, days, now, pk, order) ==
    LET cols == AnalyzeColumns(reviews)
        df_filtered == filter_by_date(AnalyzeFrame(reviews, now), days, now)
        total == Len(df_filtered)
        negative_reviews ==
            SelectSeq(df_filtered, LAMBDA row : _identify_pain_keyword_reviews(row, cols, pk))
        negative_count == Len(negative_reviews)
        volatility_slope == PainSlope(df_filtered, cols, pk).slope
        counts == calculate_keyword_density(df_filtered, cols, pk)
        counts_order == SelectSeq(order, LAMBDA c : c \in DOMAIN counts)
        risk == RiskScore(volatility_slope, counts_order, counts, total, pk)
        version == VersionImpact(negative_reviews, cols)
    IN  IF reviews = <<>> \/ df_filtered = <<>>
        THEN EmptyRun(app, now)
        ELSE [now |-> now,
              measured |-> TRUE,
              analysed |-> {df_filtered[i].idx : i \in 1..total},
              has_pain_keyword |-> {negative_reviews[i].idx : i \in 1..negative_count},
              total_reviews |-> total,
              negative_count |-> negative_count,
              negative_ratio |-> <<negative_count, total>>,
              category_counts |-> counts,
              category_matches |-> [c \in DOMAIN counts |->
                                       CategoryMatches(df_filtered, cols, c, pk)],
              result |->
                [app_name |-> app,
                 analysis_date |-> now,
                 metrics |->
                   [total_reviews_90d |-> total,
                    negative_ratio |-> RoundHalfEven(1000 * negative_count, total),
                    volatility_slope |->
                      RoundHalfEven(10000 * volatility_slope[1], volatility_slope[2]),
                    risk_score |-> risk.risk_score],
                 signals |->
                   [broken_update_detected |-> version.broken_update_detected,
                    suspected_version |-> version.suspected_version,
                    top_pain_categories |-> TopPainCategories(counts_order, counts, pk),
                    pillar_densities |->
                      [p \in PillarSet |->
                          RoundHalfEven(10000 * risk.pillar_densities[p][1],
                                        risk.pillar_densities[p][2])],
                    primary_pillar |-> risk.primary_pillar],
                 evidence |-> Evidence(negative_reviews)]]

\* One call analyzer.analyze(analysis_reviews, analysis_app, days_back), made
\* at the next time of the clock.
analyze ==
    /\ Len(runs) < Len(clock)
    /\ runs' = Append(runs, Analyze(analysis_reviews, analysis_app, days_back,
                                    clock[Len(runs) + 1], pain_keywords, taxonomy_order))
    /\ UNCHANGED <<analysis_reviews, analysis_app, days_back, taxonomy_order, clock,
                   exceptAnalysis>>

-----------------------------------------------------------------------------
(* Analyzer.analyze: properties *)

\* Two results that differ at most in analysis_date.
SameButDate(r1, r2) ==
    [r1 EXCEPT !.analysis_date = 0] = [r2 EXCEPT !.analysis_date = 0]

\* C24: two calls of analyze on the same reviews and taxonomy return the same
\* result in every field but analysis_date, whatever the times of the calls.
C24_SameResultAtAnyTime ==
    Len(runs) = 2 => SameButDate(runs[1].result, runs[2].result)

\* C27: for every review that both pipelines keep, the flag of
\* Analyzer._identify_pain_keyword_reviews inside analyze is the value of
\* ForensicAnalyzer._has_pain_keyword on the row _reviews_to_dataframe makes
\* of the review, also when its text is under an alias.
C27_OnePainClassification ==
    \A k \in 1..Len(runs) :
        LET frame == _reviews_to_dataframe(analysis_reviews)
        IN  \A i \in 1..Len(frame) :
                frame[i].idx \in runs[k].analysed =>
                    (frame[i].idx \in runs[k].has_pain_keyword
                         <=> _has_pain_keyword(frame[i].text, pain_keywords))

\* C30: in a call of analyze that reaches step 5 the flagged reviews are the
\* union of the matches of the categories; so every count is at most
\* negative_count, negative_count is at most N and at most the sum of the
\* counts, negative_ratio lies in [0, 1] and is 0 exactly when every count is.
C30_FlaggedIsUnionOfMatches ==
    \A k \in 1..Len(runs) :
        runs[k].measured =>
            LET r == runs[k]
                cats == DOMAIN r.category_counts
            IN  /\ r.has_pain_keyword = UNION {r.category_matches[c] : c \in cats}
                /\ \A c \in cats : r.category_counts[c] <= r.negative_count
                /\ r.negative_count <= Min(r.total_reviews, SumOver(cats, r.category_counts))
                /\ RatLeq(<<0, 1>>, r.negative_ratio) /\ RatLeq(r.negative_ratio, <<1, 1>>)
                /\ RatEq(r.negative_ratio, <<0, 1>>)
                       <=> \A c \in cats : r.category_counts[c] = 0

\* A call that counted two categories on one review and none on another.
C30_Witness ==
    /\ Len(runs) = 2
    /\ runs[2].measured
    /\ runs[2].total_reviews = 2
    /\ runs[2].negative_count = 1
    /\ DOMAIN runs[2].category_counts = {"critical", "usability"}
    /\ \A c \in DOMAIN runs[2].category_counts : runs[2].category_counts[c] = 1

-----------------------------------------------------------------------------
(* Fetcher.filter_reviews *)

\* The texts of the mock reviews of test_smoke.py.
TextGreatApp == <<"G", "r", "e", "a", "t", " ", "a", "p", "p", "!">>
TextLoveIt == <<"L", "o", "v", "e", " ", "i", "t", "!", " ", "P", "e", "r", "f", "e", "c",
                "t", "!">>
TextScam == <<"S", "c", "a", "m", "!", " ", "T", "h", "i", "s", " ", "a", "p", "p", " ",
              "c", "r", "a", "s", "h", "e", "s", " ", "c", "o", "n", "s", "t", "a", "n",
              "t", "l", "y", "!">>
TextGoodBut == <<"G", "o", "o", "d", " ", "b", "u", "t", " ", "c", "o", "u", "l", "d", " ",
                 "b", "e", " ", "b", "e", "t", "t", "e", "r">>
TextAverage == <<"A", "v", "e", "r", "a", "g", "e">>
TextNotGreat == <<"N", "o", "t", " ", "g", "r", "e", "a", "t">>
TextTerrible == <<"T", "e", "r", "r", "i", "b", "l", "e">>

\* The mock reviews of test_smoke.py.
mock_reviews ==
    <<[rating |-> 5, text |-> TextGreatApp],
      [rating |-> 5, text |-> TextLoveIt],
      [rating |-> 5, text |-> TextScam],
      [rating |-> 4, text |-> TextGoodBut],
      [rating |-> 3, text |-> TextAverage],
      [rating |-> 2, text |-> TextNotGreat],
      [rating |-> 1, text |-> TextTerrible]>>

\* The list critical_keywords of filter_reviews; a character outside ASCII is
\* written as its code point.
critical_keywords ==
    <<<<"s", "c", "a", "m">>, <<"c", "r", "a", "s", "h">>, <<"f", "r", "a", "u", "d">>,
      <<"b", "r", "o", "k", "e", "n">>, <<"e", "r", "r", "o", "r">>, <<"b", "u", "g">>,
      <<"l", "U+00E1", "U+00BB", "U+00AB", "a">>,
      <<"s", "U+00E1", "U+00BA", "U+00AD", "p">>,
      <<"l", "U+00E1", "U+00BB", "U+2014", "i">>>>

\* The default of a setting that settings.json does not have.
FilterSetting(f, key, default) == IF key \in DOMAIN f THEN f[key] ELSE default

RATING_FIELDS == <<"rating", "starRating", "stars", "score">>

\* Fetcher._extract_rating: the first rating field with a value from 1 to 5,
\* 0 (None) without one.
_extract_rating(review) ==
    LET valid == {k \in 1..Len(RATING_FIELDS) :
                     /\ RATING_FIELDS[k] \in DOMAIN review
                     /\ review[RATING_FIELDS[k]] \in 1..5}
    IN  IF valid = {} THEN 0
        ELSE review[RATING_FIELDS[CHOOSE k \in valid : \A j \in valid : k <= j]]

\* Fetcher._extract_review_text: the first text field with a non-empty value.
_extract_review_text(review) ==
    LET filled == {k \in 1..Len(TEXT_COLS) :
                      TEXT_COLS[k] \in DOMAIN review /\ review[TEXT_COLS[k]] # <<>>}
    IN  IF filled = {} THEN <<>>
        ELSE review[TEXT_COLS[CHOOSE k \in filled : \A j \in filled : k <= j]]

\* any(keyword in review_text.lower() for keyword in critical_keywords)
HasCriticalKeyword(review_text) ==
    \E k \in 1..Len(critical_keywords) : Contains(Lower(review_text), critical_keywords[k])

\* The body of the loop of filter_reviews: whether the review is appended to
\* filtered.
KeepsReview(review, f) ==
    LET min_star_rating == FilterSetting(f, "min_star_rating", 4)
        drop_generic_5_star == FilterSetting(f, "drop_generic_5_star", TRUE)
        min_review_length == FilterSetting(f, "min_review_length_words", 3)
        rating == _extract_rating(review)
        review_text == _extract_review_text(review)
        word_count == WordCount(review_text)
        has_critical_keyword == HasCriticalKeyword(review_text)
    IN  IF rating = 0 THEN TRUE
        ELSE IF rating < min_star_rating THEN FALSE
        ELSE IF word_count < min_review_length /\ ~has_critical_keyword THEN FALSE
        ELSE IF rating = 5
        THEN IF min_star_rating = 5 THEN TRUE
             ELSE IF drop_generic_5_star /\ min_star_rating >= 4 THEN has_critical_keyword
             ELSE TRUE
        ELSE TRUE

\* Fetcher.filter_reviews(fetched_reviews)
filter_reviews ==
    /\ qpc = "start"
    /\ filtered_reviews' = SelectSeq(fetched_reviews, LAMBDA r : KeepsReview(r, filters))
    /\ dropped_count' = Len(fetched_reviews) - Len(filtered_reviews')
    /\ qpc' = "done"
    /\ UNCHANGED <<fetched_reviews, filters, exceptFilter>>

-----------------------------------------------------------------------------
(* Fetcher.filter_reviews: properties *)

\* Dropping of generic 5-star reviews is in effect: the setting is on and the
\* threshold is at least 4 and not 5.
DropsGeneric5Star ==
    /\ FilterSetting(filters, "drop_generic_5_star", TRUE)
    /\ FilterSetting(filters, "min_star_rating", 4) >= 4
    /\ FilterSetting(filters, "min_star_rating", 4) # 5

\* A 5-star review without a critical keyword.
Generic5Star(review) ==
    _extract_rating(review) = 5 /\ ~HasCriticalKeyword(_extract_review_text(review))

\* C25: when generic 5-star dropping is in effect, filter_reviews drops the
\* 5-star reviews without a critical keyword and nothing else; of the seven
\* mock reviews of the smoke test it keeps five.
C25_DropsOnlyGeneric5Star ==
    (qpc = "done" /\ DropsGeneric5Star) =>
        /\ filtered_reviews = SelectSeq(fetched_reviews, LAMBDA r : ~Generic5Star(r))
        /\ fetched_reviews = mock_reviews => Len(filtered_reviews) = 5

-----------------------------------------------------------------------------
(* AnomalyDetector: the anomaly rule *)

\* Lines 207-214 of detect_event_timeline on the retained weeks: the column
\* "is_anomaly".
RollingAnomaly ==
    /\ rpc = "start"
    /\ is_anomaly' = [i \in 1..Len(weekly_frame) |-> IsAnomaly(weekly_frame, i)]
    /\ rpc' = "done"
    /\ UNCHANGED <<weekly_frame, exceptRule>>

\* The weeks of the runs of the rule: one or two reviews with a pain weight
\* of 0 to 2, which gives the densities 0, 1/2, 1 and 2.
RetainedWeeks == [total : {1, 2}, pain_count : 0..2]

\* The frames of retained weeks: detect_event_timeline goes on with two
\* weeks or more.
RetainedFrames == UNION {[1..n -> RetainedWeeks] : n \in 2..MaxRetainedWeeks}

\* C26: the anomaly rule can fire, and it can fire on one of the first three
\* retained weeks: when the rule has run, some frame of retained weeks has a
\* flagged week, and some frame has a flagged week among its first three.
C26_RuleCanFire ==
    rpc = "done" =>
        /\ \E w \in RetainedFrames : \E i \in 1..Len(w) : IsAnomaly(w, i)
        /\ \E w \in RetainedFrames : \E i \in 1..Min(3, Len(w)) : IsAnomaly(w, i)

-----------------------------------------------------------------------------
(* AIClient.generate_structured *)

\* An outcome of _generate_raw is [raises, form, object]: the type of the
\* exception it raises ("None" when it returns), and for a returned text its
\* form and the JSON object it holds (0 for none).  The forms:
\*   "object"           {"a": 1}
\*   "fenced"           ```json\n{"a": 1}\n```
\*   "noisy"            Here you go: {"a": 1} Hope it helps.
\*   "array_of_object"  [{"a": 1}]
\*   "array"            [1, 2]
\*   "garbage"          Sorry, I cannot do that.
\*   "blank"            text that strip() leaves empty

\* stop=stop_after_attempt(3)
StopAfterAttempt == 3

\* retry=retry_if_exception_type((ValueError, json.JSONDecodeError))
Retried(exception) == exception \in {"ValueError", "JSONDecodeError"}

\* AIClient._parse_json_response(raw): the object, 0 when it raises
\* ValueError.  A direct object is loaded at once, a fenced one after the
\* fences are stripped, an object inside other text (an array included) by
\* _extract_first_json_object.
_parse_json_response(raw) ==
    IF raw.form \in {"object", "fenced", "noisy", "array_of_object"} THEN raw.object ELSE 0

\* What _call does with an outcome of _generate_raw: the exception that
\* leaves it, "None" when it returns the text.
CallRaises(outcome) ==
    IF outcome.raises # "None" THEN outcome.raises
    ELSE IF _parse_json_response(outcome) = 0 THEN "ValueError"
    ELSE "None"

\* The handler that lets the exception of _call through.
LLMFailedReraised(e) == e

\* except Exception as e: raise ValueError(...) from e (lines 136-138)
LLMFailed(e) == "ValueError"

\* One attempt of _call under the retry decorator, _generate_raw ending in
\* `outcome`.  An exception that is not retried and the RetryError after the
\* last attempt reach the handler of generate_structured.
CallModel(outcome) ==
    /\ ai_pc = "call"
    /\ raw_history' = Append(raw_history, outcome)
    /\ IF CallRaises(outcome) = "None"
       THEN /\ raw_text' = outcome
            /\ ai_pc' = "parse"
            /\ UNCHANGED ai_exception
       ELSE IF ~Retried(CallRaises(outcome))
       THEN /\ ai_pc' = "raised"
            /\ ai_exception' = LLMFailed(CallRaises(outcome))
            /\ UNCHANGED raw_text
       ELSE IF Len(raw_history') >= StopAfterAttempt
       THEN /\ ai_pc' = "raised"
            /\ ai_exception' = LLMFailed("RetryError")
            /\ UNCHANGED raw_text
       ELSE UNCHANGED <<ai_pc, raw_text, ai_exception>>
    /\ UNCHANGED <<response_model, ai_returned, exceptClient>>

\* Lines 140-148: the response is parsed again and, with a response_model,
\* validated; `valid` tells whether model_validate accepts it.
ParseAndValidate(valid) ==
    /\ ai_pc = "parse"
    /\ IF response_model /\ ~valid
       THEN /\ ai_pc' = "raised"
            /\ ai_exception' = "ValueError"
            /\ UNCHANGED ai_returned
       ELSE /\ ai_pc' = "returned"
            /\ ai_returned' = [data |-> _parse_json_response(raw_text),
                               validated |-> response_model]
            /\ UNCHANGED ai_exception
    /\ UNCHANGED <<response_model, raw_history, raw_text, exceptClient>>

-----------------------------------------------------------------------------
(* AIClient.generate_structured: properties *)

\* An outcome after which the model is called again: an empty response or a
\* text without a JSON object.
EmptyOrUnparseable(outcome) ==
    \/ outcome.raises = "ValueError"
    \/ outcome.raises = "None" /\ _parse_json_response(outcome) = 0

\* C28: generate_structured calls _generate_raw at most 3 times, calls it
\* again only after an empty or unparseable response, returns the object of
\* the first response that has one (validated when a response_model is
\* given), and raises ValueError and nothing else when it fails.
C28_AtMostThreeCallsValueErrorOnly ==
    LET n == Len(raw_history)
    IN  /\ n <= 3
        /\ \A k \in 1..(n - 1) : EmptyOrUnparseable(raw_history[k])
        /\ ai_pc = "call" => n < 3 /\ \A k \in 1..n : EmptyOrUnparseable(raw_history[k])
        /\ ai_pc \in {"parse", "returned"} =>
              /\ n >= 1
              /\ raw_history[n].raises = "None"
              /\ _parse_json_response(raw_history[n]) # 0
        /\ ai_pc = "returned" =>
              /\ ai_returned.data = raw_history[n].object
              /\ ai_returned.validated = response_model
              /\ ai_exception = "None"
        /\ ai_pc = "raised" =>
              /\ ai_exception = "ValueError"
              /\ \/ n = 3 /\ \A k \in 1..n : EmptyOrUnparseable(raw_history[k])
                 \/ n >= 1 /\ ~EmptyOrUnparseable(raw_history[n])

\* The third response is the first with an object and is returned.
C28_Witness ==
    /\ ai_pc = "returned"
    /\ Len(raw_history) = 3
    /\ raw_history[1].raises = "ValueError"
    /\ raw_history[2].form = "garbage"
    /\ raw_history[3].form = "fenced"
    /\ response_model

-----------------------------------------------------------------------------
(* VentureArchitect.generate_blueprint *)

\* A dictionary of a stage is the function of its keys to the JSON type of
\* their value, a nested model being the function of its own keys; a schema
\* is the same for its required fields.

ICPSegment == [primary |-> "str", secondary |-> "str", whale_segment |-> "str"]

PainSuccessParadox == [pain_says |-> "str", success_says |-> "str", inference |-> "str"]

\* schemas.HolographicICP: user_personas has a default.
HolographicICP ==
    [who |-> "dict", why_udo |-> "str", what_how_workflow |-> "list",
     when_trigger |-> "str", alternatives |-> "list"]

HolographicICPModels ==
    [icp_segment |-> ICPSegment, pain_success_paradox |-> PainSuccessParadox]

\* schemas.SystemNode: note has a default.
SystemNode == [label |-> "str", evidence |-> "list", layer |-> "str"]

UDO == [statement |-> "str", adverb |-> "str", noun |-> "str"]

SystemDynamicsMap == [incumbent_failure |-> "str", depth_layers |-> "dict"]

SystemDynamicsMapModels ==
    [udo |-> UDO, uds |-> SystemNode, uds_ud |-> SystemNode, uds_ub |-> SystemNode,
     ubs |-> SystemNode, ubs_ud |-> SystemNode, ubs_ub |-> SystemNode]

EPSPrescription ==
    [principles |-> "list", environment |-> "dict", tools |-> "dict", sop |-> "list",
     trojan_horse |-> "dict", strategic_inversion_table |-> "list"]

\* model_validate: every required field is there with its type, every nested
\* model with its own required fields.
ModelValidates(d, fields, models) ==
    /\ \A k \in DOMAIN fields : k \in DOMAIN d.plain /\ d.plain[k] = fields[k]
    /\ \A k \in DOMAIN models :
          /\ k \in DOMAIN d.nested
          /\ \A j \in DOMAIN models[k] :
                j \in DOMAIN d.nested[k] /\ d.nested[k][j] = models[k][j]

\* VentureArchitect._empty_icp()
_empty_icp ==
    [plain |-> [who |-> "dict", why_udo |-> "str", what_how_workflow |-> "list",
                when_trigger |-> "str", alternatives |-> "list", user_personas |-> "list"],
     nested |-> [icp_segment |->
                   [primary |-> "str", secondary |-> "str", whale_segment |-> "str"],
                 pain_success_paradox |->
                   [pain_says |-> "str", success_says |-> "str", inference |-> "str"]]]

\* The fallback without depth_layers.
EmptySystemMapWithoutLayers ==
    [plain |-> [incumbent_failure |-> "str"],
     nested |-> [k \in {"udo", "uds", "uds_ud", "uds_ub", "ubs", "ubs_ud", "ubs_ub"} |->
                   IF k = "udo"
                   THEN [statement |-> "str", adverb |-> "str", noun |-> "str"]
                   ELSE [label |-> "str", evidence |-> "list", layer |-> "str"]]]

\* VentureArchitect._empty_system_map()
_empty_system_map ==
    [plain |-> [incumbent_failure |-> "str", depth_layers |-> "dict"],
     nested |-> [k \in {"udo", "uds", "uds_ud", "uds_ub", "ubs", "ubs_ud", "ubs_ub"} |->
                   IF k = "udo"
                   THEN [statement |-> "str", adverb |-> "str", noun |-> "str"]
                   ELSE [label |-> "str", evidence |-> "list", layer |-> "str"]]]

\* VentureArchitect._empty_eps()
_empty_eps ==
    [plain |-> [principles |-> "list", environment |-> "dict", tools |-> "dict",
                sop |-> "list", trojan_horse |-> "dict",
                strategic_inversion_table |-> "list"],
     nested |-> <<>>]

\* X.model_validate(data).model_dump() of a stage that succeeds: the fields
\* of the schema, the optional ones included.
ModelDump(stage) ==
    CASE stage = "icp" ->
             [plain |-> [k \in DOMAIN HolographicICP \cup {"user_personas"} |->
                           IF k = "user_personas" THEN "list" ELSE HolographicICP[k]],
              nested |-> HolographicICPModels]
      [] stage = "system_map" ->
             [plain |-> SystemDynamicsMap,
              nested |-> [k \in DOMAIN SystemDynamicsMapModels |->
                            IF k = "udo" THEN UDO
                            ELSE [j \in DOMAIN SystemNode \cup {"note"} |->
                                    IF j = "note" THEN "null" ELSE SystemNode[j]]]]
      [] OTHER -> [plain |-> EPSPrescription, nested |-> <<>>]

\* The output of a stage: what the LLM call gave, or the fallback of the
\* except clause when the stage raised `error`.
StageOutput(stage, error) ==
    IF error = "None"
    THEN [origin |-> "llm", fields |-> ModelDump(stage)]
    ELSE [origin |-> "fallback",
          fields |-> CASE stage = "icp" -> _empty_icp
                       [] stage = "system_map" -> _empty_system_map
                       [] OTHER -> _empty_eps]

\* app_name.replace(" ", "_").lower()
SafeName(name) ==
    CASE name = "Test App" -> "test_app"
      [] name = "Opal" -> "opal"
      [] name = "Forest" -> "forest"
      [] OTHER -> name

\* f"{app_safe}_system_map.json"
SystemMapFile(name) ==
    CASE SafeName(name) = "test_app" -> "test_app_system_map.json"
      [] SafeName(name) = "opal" -> "opal_system_map.json"
      [] SafeName(name) = "forest" -> "forest_system_map.json"
      [] OTHER -> "system_map.json"

\* f"venture_blueprint_{safe_name}.md" (Reporter.render_venture_blueprint)
BlueprintFile(name) ==
    CASE SafeName(name) = "test_app" -> "venture_blueprint_test_app.md"
      [] SafeName(name) = "opal" -> "venture_blueprint_opal.md"
      [] SafeName(name) = "forest" -> "venture_blueprint_forest.md"
      [] OTHER -> "venture_blueprint.md"

\* Stage 1: construct_holographic_icp in its try block; error is the
\* exception it raises, "None" if it returns.
Stage1(error) ==
    /\ va_pc = "stage1"
    /\ icp' = StageOutput("icp", error)
    /\ stage_log' = Append(stage_log, [stage |-> "icp", error |-> error])
    /\ va_pc' = "stage2"
    /\ UNCHANGED <<va_app, has_reddit, system_map, eps, stage_inputs, written, va_returned,
                   exceptVenture>>

\* Stage 2: map_system_dynamics(icp, ...) in its try block.
Stage2(error) ==
    /\ va_pc = "stage2"
    /\ stage_inputs' = Append(stage_inputs, [icp |-> icp])
    /\ system_map' = StageOutput("system_map", error)
    /\ stage_log' = Append(stage_log, [stage |-> "system_map", error |-> error])
    /\ va_pc' = "stage3"
    /\ UNCHANGED <<va_app, has_reddit, icp, eps, written, va_returned, exceptVenture>>

\* Stage 3: generate_eps_prescription(system_map, icp, app_name) in its try
\* block.
Stage3(error) ==
    /\ va_pc = "stage3"
    /\ stage_inputs' = Append(stage_inputs, [icp |-> icp, system_map |-> system_map])
    /\ eps' = StageOutput("eps", error)
    /\ stage_log' = Append(stage_log, [stage |-> "eps", error |-> error])
    /\ va_pc' = "save"
    /\ UNCHANGED <<va_app, has_reddit, icp, system_map, written, va_returned,
                   exceptVenture>>

\* Lines 638-649: the payload is dumped to the system-map file; generated_at
\* is the time of the call.
SaveJson ==
    /\ va_pc = "save"
    /\ written' = [f \in {SystemMapFile(va_app)} |->
                     [app_name |-> va_app,
                      generated_at |-> Today,
                      icp |-> icp,
                      system_dynamics |-> system_map,
                      eps_prescription |-> eps]]
    /\ va_pc' = "render"
    /\ UNCHANGED <<va_app, has_reddit, stage_log, icp, system_map, eps, stage_inputs,
                   va_returned, exceptVenture>>

\* Lines 651-662: Reporter.render_venture_blueprint writes the blueprint and
\* the two paths are returned.
RenderBlueprint ==
    /\ va_pc = "render"
    /\ written' = [f \in DOMAIN written \cup {BlueprintFile(va_app)} |->
                     IF f = BlueprintFile(va_app)
                     THEN [app_name |-> va_app, icp |-> icp, system_map |-> system_map,
                           eps |-> eps]
                     ELSE written[f]]
    /\ va_returned' = <<BlueprintFile(va_app), SystemMapFile(va_app)>>
    /\ va_pc' = "done"
    /\ UNCHANGED <<va_app, has_reddit, stage_log, icp, system_map, eps, stage_inputs,
                   exceptVenture>>

-----------------------------------------------------------------------------
(* VentureArchitect.generate_blueprint: properties *)

StageOrder == <<"icp", "system_map", "eps">>

\* The outputs of the stages that ran, in the order of the stages.
StageOutputs == <<icp, system_map, eps>>

\* C29: the stages run once each in the order ICP, System Map, EPS; the
\* output of a stage that failed is its valid empty fallback and that of no
\* other stage changes; the later stages are called with it; whatever stages
\* fail, the system-map JSON with its five keys and the blueprint are
\* written and their two paths returned.
C29_StagesDegradeGracefully ==
    /\ Len(stage_log) <= 3
    /\ \A k \in 1..Len(stage_log) :
          /\ stage_log[k].stage = StageOrder[k]
          /\ StageOutputs[k].origin =
                (IF stage_log[k].error = "None" THEN "llm" ELSE "fallback")
    /\ Len(stage_log) >= 1 => ModelValidates(icp.fields, HolographicICP, HolographicICPModels)
    /\ Len(stage_log) >= 2 =>
          /\ ModelValidates(system_map.fields, SystemDynamicsMap, SystemDynamicsMapModels)
          /\ stage_inputs[1].icp = icp
    /\ Len(stage_log) >= 3 =>
          /\ ModelValidates(eps.fields, EPSPrescription, <<>>)
          /\ stage_inputs[2].icp = icp
          /\ stage_inputs[2].system_map = system_map
    /\ va_pc \in {"save", "render", "done"} => Len(stage_log) = 3
    /\ va_pc = "done" =>
          /\ DOMAIN written = {SystemMapFile(va_app), BlueprintFile(va_app)}
          /\ DOMAIN written[SystemMapFile(va_app)] =
                {"app_name", "generated_at", "icp", "system_dynamics", "eps_prescription"}
          /\ written[SystemMapFile(va_app)].app_name = va_app
          /\ written[SystemMapFile(va_app)].icp = icp
          /\ written[SystemMapFile(va_app)].system_dynamics = system_map
          /\ written[SystemMapFile(va_app)].eps_prescription = eps
          /\ va_returned = <<BlueprintFile(va_app), SystemMapFile(va_app)>>

\* A call in which the stages 1 and 2 failed and stage 3 did not.
C29_Witness ==
    /\ va_pc = "done"
    /\ icp.origin = "fallback"
    /\ system_map.origin = "fallback"
    /\ eps.origin = "llm"
    /\ Len(stage_inputs) = 2
    /\ stage_inputs[2].system_map.origin = "fallback"

-----------------------------------------------------------------------------
(* Initial states *)

Taxonomies ==
    {[loaded |-> FALSE, weight |-> <<>>, keywords |-> <<>>]} \cup
    UNION {{[loaded |-> TRUE, weight |-> w, keywords |-> [c \in S |-> {}]] :
              w \in [S -> WeightChoices]} :
           S \in CategorySets}

IdleSlope ==
    /\ df = <<>>
    /\ columns = {}
    /\ spc = "idle"
    /\ weekly_counts = <<>>
    /\ slope_out = <<0, 1>>

\* The counts analyze() hands over are at most N; a direct call with N = 0
\* may carry any counts.
InitRisk ==
    /\ pain_keywords \in Taxonomies
    /\ total_reviews \in TotalChoices
    /\ category_counts \in
         [DOMAIN pain_keywords.weight ->
            0..(IF total_reviews = 0 THEN MaxCount
                ELSE IF total_reviews < MaxCount THEN total_reviews ELSE MaxCount)]
    /\ pc = "start"
    /\ slope = <<0, 1>>
    /\ pillar_densities = [p \in PillarSet |-> <<0, 1>>]
    /\ base_score = <<0, 1>>
    /\ volatility_boost = <<1, 1>>
    /\ final_risk = <<0, 1>>
    /\ risk_score = 0
    /\ primary_pillar = "None"

IdleRisk ==
    /\ total_reviews = 0
    /\ category_counts = <<>>
    /\ pc = "idle"
    /\ slope = <<0, 1>>
    /\ pillar_densities = [p \in PillarSet |-> <<0, 1>>]
    /\ base_score = <<0, 1>>
    /\ volatility_boost = <<1, 1>>
    /\ final_risk = <<0, 1>>
    /\ risk_score = 0
    /\ primary_pillar = "None"

\* The taxonomies of the TrendEstimator's runs: none loaded, one without
\* keywords, one with keywords in two categories.
SlopeTaxonomies ==
    {[loaded |-> FALSE, weight |-> <<>>, keywords |-> <<>>],
     [loaded |-> TRUE, weight |-> [c \in {"critical"} |-> 10],
      keywords |-> [c \in {"critical"} |-> {}]],
     [loaded |-> TRUE, weight |-> [c \in {"critical", "usability"} |-> 10],
      keywords |-> [c \in {"critical", "usability"} |->
                      IF c = "critical" THEN {KeywordCrash} ELSE {KeywordBug}]]}

ColumnChoices == {{"date", "text"}, {"date", "text", "title"}, {"text"}, {"date"}}

\* The rows of a DataFrame with the columns cols; a missing column reads as
\* NaT or the empty string.
Rows(cols) ==
    [date : IF "date" \in cols THEN DayChoices \cup {NaT} ELSE {NaT},
     text : IF "text" \in cols THEN TextChoices ELSE {<<>>},
     title : IF "title" \in cols THEN TitleChoices ELSE {<<>>}]

InitSlope ==
    /\ pain_keywords \in SlopeTaxonomies
    /\ columns \in ColumnChoices
    /\ df \in UNION {[1..n -> Rows(columns)] : n \in 0..MaxReviews}
    /\ spc = "start"
    /\ weekly_counts = <<>>
    /\ slope_out = <<0, 1>>

IdleTimeline ==
    /\ reviews_df = <<>>
    /\ min_reviews_per_week = 5
    /\ tpc = "idle"
    /\ timeline = <<>>
    /\ week_start = 0
    /\ version_label = "None"

IdleMigration ==
    /\ text_series = <<>>
    /\ competitors_list = <<>>
    /\ mpc = "idle"
    /\ migration = <<>>

IdleClusters ==
    /\ cluster_texts = <<>>
    /\ HAS_SKLEARN = TRUE
    /\ top_n = 5
    /\ cpc = "idle"
    /\ clusters = <<>>

IdleForensic == IdleTimeline /\ IdleMigration /\ IdleClusters

IdlePipeline ==
    /\ raw_reviews = <<>>
    /\ app_name = <<>>
    /\ fpc = "idle"
    /\ forensic_df = <<>>
    /\ intelligence = [timeline |-> <<>>, clusters |-> <<>>, migration |-> <<>>]
    /\ apc = "idle"
    /\ analyze_df = <<>>

IdleReport ==
    /\ analyses = <<>>
    /\ lpc = "idle"
    /\ leaderboard = <<>>

IdleMatrix ==
    /\ matrix_analyses = <<>>
    /\ xpc = "idle"
    /\ matrix = <<>>

IdleMain ==
    /\ main_pc = "idle"
    /\ config_step = 1
    /\ config_error = "none"
    /\ exit_status = -1
    /\ smoke_test = FALSE
    /\ targets_apps = <<>>
    /\ apps_to_process = <<>>
    /\ idx = 0
    /\ app_pc = "idle"
    /\ has_reviews = FALSE
    /\ successful_apps = <<>>
    /\ failed_apps = <<>>
    /\ attempted = <<>>
    /\ fetched = <<>>
    /\ raised = <<>>
    /\ leaderboard_file = "none"

IdleAnalysis ==
    /\ analysis_reviews = <<>>
    /\ analysis_app = ""
    /\ days_back = 0
    /\ taxonomy_order = <<>>
    /\ clock = <<>>
    /\ runs = <<>>

IdleFilter ==
    /\ fetched_reviews = <<>>
    /\ filters = <<>>
    /\ filtered_reviews = <<>>
    /\ dropped_count = 0
    /\ qpc = "idle"

IdleRule ==
    /\ weekly_frame = <<>>
    /\ is_anomaly = <<>>
    /\ rpc = "idle"

IdleClient ==
    /\ response_model = FALSE
    /\ ai_pc = "idle"
    /\ raw_history = <<>>
    /\ raw_text = <<>>
    /\ ai_returned = <<>>
    /\ ai_exception = "None"

IdleVenture ==
    /\ va_app = ""
    /\ has_reddit = FALSE
    /\ va_pc = "idle"
    /\ stage_log = <<>>
    /\ icp = <<>>
    /\ system_map = <<>>
    /\ eps = <<>>
    /\ stage_inputs = <<>>
    /\ written = <<>>
    /\ va_returned = <<>>

IdleLate == IdleMatrix /\ IdleMain /\ IdleAnalysis /\ IdleFilter /\ IdleRule /\ IdleClient /\ IdleVenture

IdleRest == IdlePipeline /\ IdleReport /\ IdleLate

IdleEarly == IdleRisk /\ IdleSlope /\ IdleForensic /\ IdlePipeline /\ IdleReport

\* The kinds of rows of the AnomalyDetector's runs: the three texts, without
\* a version and with two different ones.
TimelineRowKinds ==
    <<[text |-> TextOk, version |-> ""],
      [text |-> TextCrashed, version |-> "1.0"],
      [text |-> TextApiCrash, version |-> "2.0"]>>

\* Their days: a Tuesday and the Monday that ends its week, and the Tuesdays
\* of the next two weeks.
TimelineDays == <<1, 7, 8, 15>>

TimelineRowTypes ==
    [k \in 1..(Len(TimelineDays) * Len(TimelineRowKinds)) |->
        [date |-> TimelineDays[((k - 1) \div Len(TimelineRowKinds)) + 1],
         text |-> TimelineRowKinds[((k - 1) % Len(TimelineRowKinds)) + 1].text,
         version |-> TimelineRowKinds[((k - 1) % Len(TimelineRowKinds)) + 1].version]]
    \o <<[date |-> NaT, text |-> TextCrashed, version |-> "1.0"]>>

\* The DataFrames of n rows, up to the order of the rows.
RECURSIVE FramesOf(_, _)
FramesOf(n, top) ==
    IF n = 0
    THEN {<<>>}
    ELSE UNION {{Append(f, TimelineRowTypes[k]) : f \in FramesOf(n - 1, k)} : k \in 1..top}

InitTimeline ==
    /\ pain_keywords \in TimelineTaxonomies
    /\ reviews_df \in UNION {FramesOf(n, Len(TimelineRowTypes)) : n \in 0..MaxTimelineRows}
    /\ min_reviews_per_week \in {1, 2}
    /\ tpc = "start"
    /\ timeline = <<>>
    /\ week_start = 0
    /\ version_label = "None"

InitMigration ==
    /\ pain_keywords \in {[loaded |-> FALSE, weight |-> <<>>, keywords |-> <<>>]}
    /\ text_series \in UNION {[1..n -> MigrationTexts] : n \in 0..MaxTexts}
    /\ competitors_list \in CompetitorLists
    /\ mpc = "start"
    /\ migration = <<>>

\* The texts of the ClusterMiner's runs: up to three of the words app,
\* failed, sync, and three texts with a stop word, a generic phrase and a
\* word of one character.
ClusterTexts ==
    UNION {[1..n -> {"app", "failed", "sync"}] : n \in 1..3}
    \cup {<<"sync", "the", "failed">>, <<"this", "app", "failed">>, <<"it", "s", "failed">>}

InitClusters ==
    /\ pain_keywords \in {[loaded |-> FALSE, weight |-> <<>>, keywords |-> <<>>]}
    /\ cluster_texts \in UNION {[1..n -> ClusterTexts] : n \in 0..MaxClusterTexts}
    /\ HAS_SKLEARN \in BOOLEAN
    /\ top_n \in {1, 5}
    /\ cpc = "start"
    /\ clusters = <<>>

\* The reviews of the pipeline's runs: with a date, with a date that cannot
\* be parsed, with a reviewDate and without any date; with one of three
\* texts and a score of 1 or 5.
RawDates ==
    {[date |-> 1], [date |-> Unparsable], [reviewDate |-> 8], <<>>}

RawReviews ==
    {[k \in DOMAIN d \cup {"text", "score"} |->
         IF k = "text" THEN t ELSE IF k = "score" THEN sc ELSE d[k]] :
     d \in RawDates, t \in {TextOk, TextSyncFailed, TextSwitchedToOpal}, sc \in {1, 5}}

InitPipeline ==
    /\ pain_keywords \in {[loaded |-> FALSE, weight |-> <<>>, keywords |-> <<>>]}
    /\ raw_reviews \in UNION {[1..n -> RawReviews] : n \in 0..MaxRawReviews}
    /\ app_name \in {NameOpal, NameForest}
    /\ HAS_SKLEARN \in BOOLEAN
    /\ fpc = "start"
    /\ forensic_df = <<>>
    /\ intelligence = [timeline |-> <<>>, clusters |-> <<>>, migration |-> <<>>]
    /\ apc = "start"
    /\ analyze_df = <<>>
    /\ cluster_texts = <<>>
    /\ top_n = 5
    /\ cpc = "idle"
    /\ clusters = <<>>

\* The files of the LeaderboardAggregator's runs: the k-th is the analysis of
\* the k-th app, with one of three risk scores, with or without a monthly
\* leakage, or it does not load.
AppNames == <<"A", "B", "C">>

AnalysisFiles(k) ==
    {[loads |-> l,
      analysis |-> [app_name |-> AppNames[k], metrics |-> [risk_score |-> r], signals |-> sg]] :
     l \in BOOLEAN, r \in {10, 50, 90}, sg \in {<<>>, [monthly_leakage_usd |-> 500]}}

InitReport ==
    /\ pain_keywords \in {[loaded |-> FALSE, weight |-> <<>>, keywords |-> <<>>]}
    /\ analyses \in UNION {{f \in [1..n -> UNION {AnalysisFiles(k) : k \in 1..MaxApps}] :
                               \A k \in 1..n : f[k] \in AnalysisFiles(k)} : n \in 0..MaxApps}
    /\ lpc = "start"
    /\ leaderboard = <<>>

\* The analyses of the matrix's runs: of one of two apps; without signals,
\* with empty pillar densities, with the Functional density alone, or with
\* all three.  The densities: 0, 0.1234, 5.0, 8.0, 12.0 and -1.0.
DensityChoices == {0, 1234, 50000, 80000, 120000, -10000}

PillarDensityChoices ==
    {<<>>} \cup {[Functional |-> d] : d \in DensityChoices}
    \cup {[Functional |-> d, Economic |-> e, Experience |-> 5000] :
              d \in DensityChoices, e \in DensityChoices}

MatrixAnalyses ==
    {[app_name |-> n, signals |-> sg] :
        n \in {"AppA", "AppB"},
        sg \in {<<>>} \cup {[pillar_densities |-> ds] : ds \in PillarDensityChoices}}

InitMatrix ==
    /\ pain_keywords \in {[loaded |-> FALSE, weight |-> <<>>, keywords |-> <<>>]}
    /\ matrix_analyses \in UNION {[1..n -> MatrixAnalyses] : n \in 0..MaxMatrixApps}
    /\ xpc = "start"
    /\ matrix = <<>>

\* The apps of targets.json: different names, each with a URL or an empty one.
TargetNames == <<"A", "B", "C", "D">>

InitMain ==
    /\ pain_keywords \in {[loaded |-> FALSE, weight |-> <<>>, keywords |-> <<>>]}
    /\ main_pc = "config"
    /\ config_step = 1
    /\ config_error = "none"
    /\ exit_status = -1
    /\ smoke_test \in BOOLEAN
    /\ targets_apps \in UNION {{[i \in 1..n |-> [name |-> TargetNames[i], url |-> u[i]]] :
                                   u \in [1..n -> {"", "https://apps.apple.com/app/id1"}]} :
                               n \in 0..MaxTargets}
    /\ apps_to_process = <<>>
    /\ idx = 0
    /\ app_pc = "idle"
    /\ has_reviews = FALSE
    /\ successful_apps = <<>>
    /\ failed_apps = <<>>
    /\ attempted = <<>>
    /\ fetched = <<>>
    /\ raised = <<>>
    /\ leaderboard_file = "none"

\* The reviews of the runs of analyze: dated on day 21 or 28 or without a
\* date, with a text under "text" or under "reviewText", with or without a
\* title, with or without a version.
AnalysedDates == {[date |-> 21], [date |-> 28], <<>>}

AnalysedTexts == {[text |-> TextOk], [text |-> TextCrashed], [reviewText |-> TextCrashed]}

AnalysedTitles == {[title |-> TitleBug], <<>>}

AnalysedVersions == {[version |-> "1.0"], <<>>}

AnalysedReviews ==
    {[k \in DOMAIN d \cup DOMAIN b \cup DOMAIN t \cup DOMAIN v |->
         IF k \in DOMAIN d THEN d[k]
         ELSE IF k \in DOMAIN b THEN b[k]
         ELSE IF k \in DOMAIN t THEN t[k]
         ELSE v[k]] :
     d \in AnalysedDates, b \in AnalysedTexts, t \in AnalysedTitles, v \in AnalysedVersions}

\* Two calls of analyze on the same reviews, the second a day after the
\* first, with a window of a week.
InitAnalysis ==
    /\ pain_keywords \in SlopeTaxonomies
    /\ taxonomy_order \in Orders(DOMAIN pain_keywords.weight)
    /\ analysis_reviews \in UNION {[1..n -> AnalysedReviews] : n \in 0..MaxAnalysedReviews}
    /\ analysis_app = AppNames[1]
    /\ days_back = 7
    /\ clock = <<Today, Today + 1>>
    /\ runs = <<>>

\* The reviews of the runs of filter_reviews: the mock reviews, a review
\* with its rating under "stars", one without a rating and one without a text.
FetchedReviews ==
    {mock_reviews[k] : k \in 1..Len(mock_reviews)} \cup
    {[stars |-> 2, reviewText |-> TextScam], [text |-> TextGreatApp], [rating |-> 4]}

\* The sections "filters" of settings.json; the empty one leaves the defaults.
FilterSettings ==
    {<<>>} \cup
    [min_star_rating : {1, 3, 4, 5}, drop_generic_5_star : BOOLEAN,
     min_review_length_words : {1, 3}]

\* filter_reviews on the mock reviews of the smoke test and on every list of
\* the bounds, under every setting.
InitFilter ==
    /\ fetched_reviews \in
         {mock_reviews} \cup UNION {[1..n -> FetchedReviews] : n \in 0..MaxFetched}
    /\ filters \in FilterSettings
    /\ filtered_reviews = <<>>
    /\ dropped_count = 0
    /\ qpc = "start"

InitRule ==
    /\ weekly_frame \in RetainedFrames
    /\ is_anomaly = <<>>
    /\ rpc = "start"

\* The outcomes of _generate_raw: a text of one of the forms, an empty
\* response (ValueError) or an error of the API.
RawOutcomes ==
    [raises : {"None"}, form : {"object", "fenced", "noisy", "array_of_object"},
     object : 1..MaxObjects]
    \cup [raises : {"None"}, form : {"array", "garbage", "blank"}, object : {0}]
    \cup [raises : {"ValueError", "APIError"}, form : {"none"}, object : {0}]

InitClient ==
    /\ response_model \in BOOLEAN
    /\ ai_pc = "call"
    /\ raw_history = <<>>
    /\ raw_text = <<>>
    /\ ai_returned = <<>>
    /\ ai_exception = "None"

BlueprintApps == <<"Test App", "Opal", "Forest">>

\* What a stage can raise: the ValueError of generate_structured and the
\* ValidationError of model_validate.
StageErrors == {"None", "ValueError", "ValidationError"}

InitVenture ==
    /\ va_app \in {BlueprintApps[k] : k \in 1..MaxBlueprintApps}
    /\ has_reddit \in BOOLEAN
    /\ va_pc = "stage1"
    /\ stage_log = <<>>
    /\ icp = <<>>
    /\ system_map = <<>>
    /\ eps = <<>>
    /\ stage_inputs = <<>>
    /\ written = <<>>
    /\ va_returned = <<>>

NextRisk ==
    \/ \E s \in SlopeChoices : \E order \in Orders(DOMAIN category_counts) :
          calculate_risk_score(s, order)
    \/ _empty_analysis_result

\* The RiskScorer on every taxonomy, counts, N and slope of the bounds.
InitRiskScorer == InitRisk /\ IdleSlope /\ IdleForensic /\ IdleRest

SpecRisk == InitRiskScorer /\ [][NextRisk]_vars

\* The TrendEstimator on every DataFrame of the bounds.
InitTrendEstimator == IdleRisk /\ InitSlope /\ IdleForensic /\ IdleRest

NextSlope == calculate_slope

SpecSlope == InitTrendEstimator /\ [][NextSlope]_vars

\* The AnomalyDetector on every DataFrame of the bounds.
InitAnomalyDetector ==
    IdleRisk /\ IdleSlope /\ InitTimeline /\ IdleMigration /\ IdleClusters /\ IdleRest

NextTimeline ==
    \/ detect_event_timeline
    \/ NameSpikeOfWeek

SpecTimeline == InitAnomalyDetector /\ [][NextTimeline]_vars

\* The MigrationDetector on every text series and competitor list of the bounds.
InitMigrationDetector ==
    IdleRisk /\ IdleSlope /\ IdleTimeline /\ InitMigration /\ IdleClusters /\ IdleRest

NextMigration == MapCompetitorMigration

SpecMigration == InitMigrationDetector /\ [][NextMigration]_vars

\* The ClusterMiner on every text series of the bounds.
InitClusterMiner ==
    IdleRisk /\ IdleSlope /\ IdleTimeline /\ IdleMigration /\ InitClusters /\ IdleRest

NextClusters == ExtractSemanticClusters

SpecClusters == InitClusterMiner /\ [][NextClusters]_vars

\* run_forensic and the date step of analyze on every review list of the bounds.
InitForensicPipeline ==
    /\ IdleRisk /\ IdleSlope /\ IdleTimeline /\ IdleMigration /\ InitPipeline /\ IdleReport
    /\ IdleLate

NextPipeline ==
    \/ run_forensic
    \/ AnalyzeNormalizeDates

SpecPipeline == InitForensicPipeline /\ [][NextPipeline]_vars

\* The LeaderboardAggregator on every data directory of the bounds.
InitLeaderboardAggregator ==
    IdleRisk /\ IdleSlope /\ IdleForensic /\ IdlePipeline /\ InitReport /\ IdleLate

NextLeaderboard == aggregate_leaderboard

SpecLeaderboard == InitLeaderboardAggregator /\ [][NextLeaderboard]_vars

\* generate_matrix on every list of analyses of the bounds.
InitNicheMatrix == IdleEarly /\ InitMatrix /\ IdleMain /\ IdleAnalysis /\ IdleFilter /\ IdleRule /\ IdleClient
    /\ IdleVenture

NextMatrix == GenerateMatrix

SpecMatrix == InitNicheMatrix /\ [][NextMatrix]_vars

\* main on every targets.json of the bounds, with and without --smoke-test.
InitMainRun == IdleEarly /\ IdleMatrix /\ InitMain /\ IdleAnalysis /\ IdleFilter /\ IdleRule /\ IdleClient
    /\ IdleVenture

NextMain ==
    \/ \E raises \in BOOLEAN : LoadAndValidate(raises)
    \/ \E raises \in BOOLEAN : InitComponents(raises)
    \/ NextApp
    \/ CheckUrl
    \/ \E outcome \in {"returns", "raises", "interrupted"} : FetchReviews(outcome)
    \/ \E some \in BOOLEAN : FilterReviews(some)
    \/ \E raises \in BOOLEAN : SaveReviews(raises)
    \/ AnalyzeReviews
    \/ EndLoop
    \/ \E raises \in BOOLEAN : Summary(raises)

SpecMain == InitMainRun /\ [][NextMain]_vars

\* analyze twice on every review list of the bounds.
InitAnalyzer == IdleEarly /\ IdleMatrix /\ IdleMain /\ InitAnalysis /\ IdleFilter /\ IdleRule /\ IdleClient
    /\ IdleVenture

NextAnalysis == analyze

SpecAnalysis == InitAnalyzer /\ [][NextAnalysis]_vars

\* Fetcher.filter_reviews on every review list and setting of the bounds.
InitFetcherFilter ==
    pain_keywords = [loaded |-> FALSE, weight |-> <<>>, keywords |-> <<>>]
    /\ IdleEarly /\ IdleMatrix /\ IdleMain /\ IdleAnalysis /\ InitFilter /\ IdleRule
    /\ IdleClient /\ IdleVenture

NextFilter == filter_reviews

SpecFilter == InitFetcherFilter /\ [][NextFilter]_vars

\* The anomaly rule on every frame of retained weeks of the bounds.
InitAnomalyRule ==
    pain_keywords = [loaded |-> FALSE, weight |-> <<>>, keywords |-> <<>>]
    /\ IdleEarly /\ IdleMatrix /\ IdleMain /\ IdleAnalysis /\ IdleFilter /\ InitRule
    /\ IdleClient /\ IdleVenture

NextRule == RollingAnomaly

SpecRule == InitAnomalyRule /\ [][NextRule]_vars

\* generate_structured with every sequence of outcomes of the model calls.
InitAIClient ==
    pain_keywords = [loaded |-> FALSE, weight |-> <<>>, keywords |-> <<>>]
    /\ IdleEarly /\ IdleMatrix /\ IdleMain /\ IdleAnalysis /\ IdleFilter /\ IdleRule
    /\ InitClient /\ IdleVenture

NextClient ==
    \/ \E outcome \in RawOutcomes : CallModel(outcome)
    \/ \E valid \in BOOLEAN : ParseAndValidate(valid)

SpecClient == InitAIClient /\ [][NextClient]_vars

\* generate_blueprint with every combination of failures of its stages.
InitVentureArchitect ==
    pain_keywords = [loaded |-> FALSE, weight |-> <<>>, keywords |-> <<>>]
    /\ IdleEarly /\ IdleMatrix /\ IdleMain /\ IdleAnalysis /\ IdleFilter /\ IdleRule
    /\ IdleClient /\ InitVenture

NextVenture ==
    \/ \E error \in StageErrors : Stage1(error)
    \/ \E error \in StageErrors : Stage2(error)
    \/ \E error \in StageErrors : Stage3(error)
    \/ SaveJson
    \/ RenderBlueprint

SpecVenture == InitVentureArchitect /\ [][NextVenture]_vars

=============================================================================
